---- MODULE Spec2Model ----
(***************************************************************************)
(* Batch orchestrator of the tipificador service (backend/app/main.py).    *)
(*                                                                         *)
(* The batch meta file is the only state shared between the request        *)
(* handlers (start, cancel, retry-errors, reconciling reads) and the       *)
(* background worker threads.  Every handler and every worker loads the    *)
(* whole record, changes its private copy and saves the whole record, so   *)
(* each load and each save of the file is one atomic step of the model and *)
(* everything a thread does between two of them is local to it.            *)
(*                                                                         *)
(* Encoding of Python values: None is the empty tuple; a job id is the     *)
(* pair <<worker, package>> (uuid4: a fresh value per created job); the     *)
(* result file "<name>.zip" of package i is <<"pkg", i>>; the download     *)
(* name "<invoice>.zip" is <<"inv", v>>; an error message is <<text>>.     *)
(* Packages are numbered 1..n in the sorted order of their folder names.   *)
(* The object-store upload of the results (main.py 1351-1376) only adds    *)
(* gcsResult/gcsAllZip/gcsError fields and is left out.                    *)
(***************************************************************************)
EXTENDS Integers, Sequences, FiniteSets, TLC

VARIABLES
    meta,       \* <root>/batches/<id>/meta.json, or None before admission
    results,    \* packages i whose results/<name>.zip exists
    allZipFile, \* results/all.zip: None, or the sequence of its entries
    workers,    \* the _process_batch threads, by thread number
    reqs,       \* the HTTP requests on the batch, by arrival number
    admit,      \* the batch admission request
    job,        \* <root>/<job id>: the scratch directory of one job, or None
    jreq,       \* the request on the job being handled, or the last response
    normCall,   \* a call of _normalize_invoice_code: its input and its result
    disk,       \* the batch directory: its inodes and the names meta.json, meta.json.tmp
    savers,     \* the threads inside _save_batch_meta, by thread number
    loaders,    \* the threads inside _load_batch_meta, by thread number
    crashed,    \* the process has crashed
    classifyCall, \* a call of _classify_text: its arguments and its result
    extraction, \* a run of _page_text_for_classification over the pages of a job
    jobRoot,    \* JOB_ROOT: the directories under it, and the time of day
    pool        \* the page tasks of _auto_classify_internal and their thread pool

vars == <<meta, results, allZipFile, workers, reqs, admit, job, jreq, normCall,
          disk, savers, loaders, crashed, classifyCall, extraction, jobRoot, pool>>

\* The meta file at the level of its system calls, and single calls of the
\* rule classifier and of the text extractor
saveVars == <<disk, savers, loaders, crashed, classifyCall, extraction, jobRoot, pool>>

batchVars == <<meta, results, allZipFile, workers, reqs, admit, saveVars>>

jobVars == <<job, jreq, normCall, saveVars>>

\* ------------------------------------------------------------------ bounds
\* Spec: one batch of NPkg packages, MaxWorkers thread slots, MaxReq requests.
NPkg == 3
MaxWorkers == 2
MaxReq == 2
\* cancel_check polls per package
MaxPolls == 1

\* SpecAdmit: archives of up to MaxFolders package folders
MaxFolders == 11

MAX_BATCH_PACKAGES == 10

None == <<>>

\* No thread is inside a save or a load of the meta file, no call is made
SavesIdle ==
    /\ disk = None /\ savers = None /\ loaders = None /\ crashed = FALSE
    /\ classifyCall = None /\ extraction = None /\ jobRoot = None /\ pool = None

Tids == DOMAIN workers
Rids == DOMAIN reqs

PackageStatuses == {"pending", "processing", "done", "error", "cancelled"}

\* ------------------------------------------------------------ batch record
\* A folder name is the tuple of its character codes.
Less(a, b) ==
    \E k \in 1..Len(b) :
        /\ \A j \in 1..(k - 1) : j <= Len(a) /\ a[j] = b[j]
        /\ (k > Len(a) \/ (k <= Len(a) /\ a[k] < b[k]))
        /\ k - 1 <= Len(a)

\* sorted(pkg_folders)
RECURSIVE Sorted(_)
Sorted(S) ==
    IF S = {} THEN <<>>
    ELSE LET least == CHOOSE a \in S : \A b \in S \ {a} : Less(a, b)
         IN  <<least>> \o Sorted(S \ {least})

NewPackage(folder) ==
    [name |-> folder, status |-> "pending", jobId |-> None, resultFile |-> None,
     downloadName |-> None, error |-> None]

\* The meta _build_batch_from_zip saves for the package folders found
NewBatchMeta(folders) ==
    [status |-> "ready", cancelRequested |-> FALSE,
     packages |-> [i \in 1..Cardinality(folders) |-> NewPackage(Sorted(folders)[i])],
     allZip |-> FALSE]

\* The folders "a", "b", .. of a batch of n packages
PlainFolders(n) == {<<96 + i>> : i \in 1..n}

ResultFileName(i) == <<"pkg", i>>

DownloadName(v) == <<"inv", v>>

JobId(w, i) == <<w, i>>

Statuses(m) == [j \in DOMAIN m.packages |-> m.packages[j].status]

CountStatus(pkgs, S) == Cardinality({i \in DOMAIN pkgs : pkgs[i].status \in S})

\* --------------------------------------------------- per-package failures
\* The ways the try block of the worker loop fails, by the stage that raises.
CreateFailures == {"NoPdfs", "CorruptPdf"}

ClassifyFailures == {"OcrDisabled"}

\* "Unexpected" is an exception of a library that carries a text,
\* "UnexpectedNoText" one whose str(e) is empty (MemoryError() and the like).
ProcessFailures == {"FevRequired", "Unresolved", "Unexpected", "UnexpectedNoText"}

\* The batch under check.  What a package holds decides how its processing
\* can fail: package 1, 4, .. may hold no PDF or no FEV page, package 2, 5, ..
\* a corrupt PDF or a FEV page without NIT/invoice code, package 3, 6, .. meets
\* a disabled OCR or an unexpected exception, with or without a text.  Any
\* package may also succeed.
FailuresOf(i) ==
    CASE i % 3 = 1 -> {"NoPdfs", "FevRequired"}
      [] i % 3 = 2 -> {"CorruptPdf", "Unresolved"}
      [] OTHER     -> {"OcrDisabled", "Unexpected", "UnexpectedNoText"}

\* The invoice code found in package i's FEV pages (two packages may carry
\* the same invoice).
InvoiceOf(i) == i % 2

\* The text recorded in pkg["error"]: the HTTPException detail (or its
\* "message" entry), or str(e) of any other exception.
FailureMessage(kind) ==
    CASE kind = "NoPdfs"      -> <<"Paquete sin PDFs.">>
      [] kind = "CorruptPdf"  -> <<"PDF invalido o corrupto">>
      [] kind = "OcrDisabled" -> <<"OCR deshabilitado en el servidor.">>
      [] kind = "FevRequired" -> <<"FEV es obligatorio">>
      [] kind = "Unresolved"  -> <<"No pude detectar NIT y/o numero de factura desde FEV.">>
      [] kind = "Unexpected"  -> <<"str(e)">>
      [] OTHER                -> <<"">>

\* except branches of the loop body: the package record after a failure.
PkgAfterError(pkg, kind) ==
    [pkg EXCEPT !.status = "error", !.error = FailureMessage(kind)]

\* except RuntimeError("batch_cancelled").
PkgAfterCancel(pkg) ==
    [pkg EXCEPT !.status = "cancelled", !.error = <<"cancelled">>]

PkgAfterDoneNoFile(pkg, i, v) == [pkg EXCEPT !.status = "done"]

\* The end of the try block: result file written, package recorded done.
PkgAfterDone(pkg, i, v) ==
    [pkg EXCEPT !.resultFile = ResultFileName(i),
                !.downloadName = DownloadName(v),
                !.status = "done"]

\* ------------------------------------------------------------ worker thread
\* pc, meta (the thread's own copy of the batch meta), target (target_set),
\* i (the package the loop is at), cancelled and polls are the thread;
\* `tried` records the packages the run has set to processing, `raised` the
\* failure the try block of the current package ended with and `seen` the
\* package statuses the spawning request had loaded.
NoWorker ==
    [pc |-> "idle", meta |-> None, target |-> {}, i |-> 0,
     cancelled |-> FALSE, polls |-> 0, tried |-> {}, raised |-> "none", seen |-> None]

\* threading.Thread(target=_process_batch, args=(batch_id[, names])).start()
SpawnedWorker(names, snap) ==
    [NoWorker EXCEPT !.pc = "load", !.target = names, !.seen = Statuses(snap)]

Running(w) == workers[w].pc \notin {"idle", "finished"}

RunningWorkers == {w \in Tids : Running(w)}

FreeTid == CHOOSE w \in Tids : workers[w].pc = "idle" /\ \A u \in 1..(w-1) : workers[u].pc # "idle"

CanSpawn == \E w \in Tids : workers[w].pc = "idle"

\* `if target_set and pkg.get("name") not in target_set: continue`
IsTarget(target, j) == target = {} \/ j \in target

\* LoopHead with a `break` after a failed package
LoopHeadBreakOnError(wk, from) ==
    LET n == Len(wk.meta.packages)
        rest == {j \in from..n : IsTarget(wk.target, j)}
    IN  IF from > n THEN [wk EXCEPT !.pc = "zip", !.i = from]
        ELSE IF wk.meta.cancelRequested
             THEN [wk EXCEPT !.pc = "zip", !.i = from, !.cancelled = TRUE]
        ELSE IF from > 1 /\ wk.meta.packages[from - 1].status = "error"
             THEN [wk EXCEPT !.pc = "zip", !.i = from]
        ELSE IF rest = {} THEN [wk EXCEPT !.pc = "zip", !.i = n + 1]
        ELSE [wk EXCEPT !.pc = "start",
                        !.i = CHOOSE j \in rest : \A k \in rest : j <= k]

\* The head of `for pkg in meta["packages"]`, entered at package `from`:
\* a pending cancelRequested in the worker's own copy leaves the loop, the
\* packages outside the target set are skipped.
LoopHead(wk, from) ==
    LET n == Len(wk.meta.packages)
        rest == {j \in from..n : IsTarget(wk.target, j)}
    IN  IF from > n THEN [wk EXCEPT !.pc = "zip", !.i = from]
        ELSE IF wk.meta.cancelRequested
             THEN [wk EXCEPT !.pc = "zip", !.i = from, !.cancelled = TRUE]
        ELSE IF rest = {} THEN [wk EXCEPT !.pc = "zip", !.i = n + 1]
        ELSE [wk EXCEPT !.pc = "start",
                        !.i = CHOOSE j \in rest : \A k \in rest : j <= k]

\* The consolidated archive: one entry per done package with a result file,
\* in package order, named downloadName or, failing that, the result file.
RECURSIVE AllZipEntries(_, _)
AllZipEntries(pkgs, k) ==
    IF k > Len(pkgs) THEN <<>>
    ELSE LET p == pkgs[k]
             tail == AllZipEntries(pkgs, k + 1)
         IN  IF p.status # "done" \/ p.resultFile = None THEN tail
             ELSE <<[file |-> p.resultFile,
                     arcname |-> IF p.downloadName # None THEN p.downloadName
                                 ELSE p.resultFile]>> \o tail

\* The status the worker stores when it ends.
FinalStatus(pkgs, cancelled) ==
    LET done_count == CountStatus(pkgs, {"done"})
        error_count == CountStatus(pkgs, {"error"})
        pending_count == CountStatus(pkgs, {"pending", "processing"})
    IN  IF cancelled THEN "cancelled"
        ELSE IF pending_count > 0 THEN "processing"
        ELSE IF error_count > 0 /\ done_count > 0 THEN "partial"
        ELSE IF error_count > 0 /\ done_count = 0 THEN "error"
        ELSE IF done_count > 0 THEN "done"
        ELSE "pending"

FinalMeta(m, cancelled) ==
    IF cancelled
    THEN [m EXCEPT !.status = "cancelled", !.cancelRequested = FALSE,
                   !.packages = [j \in DOMAIN m.packages |->
                       IF m.packages[j].status \in {"pending", "processing"}
                       THEN [m.packages[j] EXCEPT !.status = "cancelled"]
                       ELSE m.packages[j]]]
    ELSE [m EXCEPT !.status = FinalStatus(m.packages, FALSE)]

\* meta = _load_batch_meta(batch_id); meta["status"] = "processing"
WLoad(w) ==
    /\ workers[w].pc = "load"
    /\ workers' = [workers EXCEPT ![w].pc = "begin",
                                  ![w].meta = [meta EXCEPT !.status = "processing"]]
    /\ UNCHANGED <<meta, results, allZipFile, reqs, admit>>

\* _save_batch_meta(batch_id, meta), then the loop is entered
WBegin(w) ==
    /\ workers[w].pc = "begin"
    /\ meta' = workers[w].meta
    /\ workers' = [workers EXCEPT ![w] = LoopHead(workers[w], 1)]
    /\ UNCHANGED <<results, allZipFile, reqs, admit>>

\* pkg["status"] = "processing"; pkg["error"] = None; save; then the job is
\* created from the package's PDFs (a step on the job's own directory).
WStart(w) ==
    LET wk == workers[w]
        i == wk.i
        m1 == [wk.meta EXCEPT !.packages[i].status = "processing",
                              !.packages[i].error = None]
    IN  /\ wk.pc = "start"
        /\ meta' = m1
        /\ \/ \E kind \in CreateFailures \cap FailuresOf(i) :
                workers' = [workers EXCEPT ![w].pc = "save",
                    ![w].tried = wk.tried \cup {i}, ![w].raised = kind,
                    ![w].meta = [m1 EXCEPT !.packages[i] = PkgAfterError(m1.packages[i], kind)]]
           \/ \E kind \in ClassifyFailures \cap FailuresOf(i) :
                workers' = [workers EXCEPT ![w].pc = "save",
                    ![w].tried = wk.tried \cup {i}, ![w].raised = kind,
                    ![w].meta = [m1 EXCEPT !.packages[i] =
                        PkgAfterError([m1.packages[i] EXCEPT !.jobId = JobId(w, i)], kind)]]
           \/ workers' = [workers EXCEPT ![w].pc = "classify", ![w].polls = 0,
                    ![w].tried = wk.tried \cup {i}, ![w].raised = "none",
                    ![w].meta = [m1 EXCEPT !.packages[i].jobId = JobId(w, i)]]
        /\ UNCHANGED <<results, allZipFile, reqs, admit>>

\* cancel_check: _load_batch_meta(batch_id).get("cancelRequested", False),
\* polled by _page_text_for_classification before each tier of each page.
WPoll(w) ==
    LET wk == workers[w]
        i == wk.i
    IN  /\ wk.pc = "classify"
        /\ wk.polls < MaxPolls
        /\ IF meta.cancelRequested
           THEN workers' = [workers EXCEPT ![w].pc = "save", ![w].cancelled = TRUE,
                    ![w].raised = "batch_cancelled",
                    ![w].meta.packages[i] = PkgAfterCancel(wk.meta.packages[i])]
           ELSE workers' = [workers EXCEPT ![w].polls = wk.polls + 1]
        /\ UNCHANGED <<meta, results, allZipFile, reqs, admit>>

\* _process_job_bytes and the write of results/<name>.zip
WProcess(w) ==
    LET wk == workers[w]
        i == wk.i
    IN  /\ wk.pc = "classify"
        /\ wk.polls >= 1
        /\ \/ \E kind \in ProcessFailures \cap FailuresOf(i) :
                /\ workers' = [workers EXCEPT ![w].pc = "save", ![w].raised = kind,
                       ![w].meta.packages[i] = PkgAfterError(wk.meta.packages[i], kind)]
                /\ UNCHANGED results
           \/ /\ workers' = [workers EXCEPT ![w].pc = "save",
                       ![w].meta.packages[i] =
                           PkgAfterDone(wk.meta.packages[i], i, InvoiceOf(i))]
              /\ results' = results \cup {i}
        /\ UNCHANGED <<meta, allZipFile, reqs, admit>>

\* _save_batch_meta at the end of the loop body, then the next iteration
WSave(w) ==
    /\ workers[w].pc = "save"
    /\ meta' = workers[w].meta
    /\ workers' = [workers EXCEPT ![w] = LoopHead(workers[w], workers[w].i + 1)]
    /\ UNCHANGED <<results, allZipFile, reqs, admit>>

\* Build consolidated ZIP; meta["allZip"] = "all.zip"
WZip(w) ==
    /\ workers[w].pc = "zip"
    /\ allZipFile' = <<AllZipEntries(workers[w].meta.packages, 1)>>
    /\ workers' = [workers EXCEPT ![w].pc = "final", ![w].meta.allZip = TRUE]
    /\ UNCHANGED <<meta, results, reqs, admit>>

\* The final status and the last save of the run
WFinal(w) ==
    /\ workers[w].pc = "final"
    /\ meta' = FinalMeta(workers[w].meta, workers[w].cancelled)
    /\ workers' = [workers EXCEPT ![w].pc = "finished",
                                  ![w].meta = FinalMeta(workers[w].meta, workers[w].cancelled)]
    /\ UNCHANGED <<results, allZipFile, reqs, admit>>

\* ---------------------------------------------------------- HTTP requests
\* op, pc and snap (the handler's loaded copy of the meta) are the handler;
\* resp is its response.  For a cancel, `alive` records the workers running
\* when it was stored, `seen` the package statuses it had loaded and `stored`
\* the package statuses on disk just before its write.
NoReq ==
    [op |-> "none", pc |-> "idle", snap |-> None, resp |-> None,
     alive |-> {}, seen |-> None, stored |-> None]

Answered(op, resp) == [NoReq EXCEPT !.op = op, !.pc = "done", !.resp = resp]


\* Requests arrive one after another; any number of them may be in flight.
MayArrive(k) == reqs[k].pc = "idle" /\ (IF k = 1 THEN TRUE ELSE reqs[k - 1].pc # "idle")

\* start_batch without the early return for a done batch
StartIdempotentOnlyProcessing == {"processing"}

\* start_batch returns the stored status untouched for these statuses
StartIdempotentStatuses == {"processing", "done"}

\* cancel_batch without "ready" in its direct branch
CancelDirectOnlyPending == {"pending"}

\* cancel_batch stores cancelled at once for these statuses
CancelDirectStatuses == {"ready", "pending"}

\* error_pkgs of retry_batch_errors: the packages in status error
ErrorPackages(m) == {j \in DOMAIN m.packages : m.packages[j].status = "error"}

\* POST /batch/{id}/start: meta = _load_batch_meta(batch_id) and the two
\* early returns
StartLoad(k) ==
    /\ MayArrive(k)
    /\ IF meta.status \in StartIdempotentStatuses
       THEN reqs' = [reqs EXCEPT ![k] = Answered("start", <<meta.status>>)]
       ELSE reqs' = [reqs EXCEPT ![k] = [NoReq EXCEPT !.op = "start", !.pc = "loaded",
                                                     !.snap = meta]]
    /\ UNCHANGED <<meta, results, allZipFile, workers, admit>>

\* start_batch: cancelRequested = False, status = processing, save, spawn
StartCommit(k) ==
    /\ reqs[k].op = "start" /\ reqs[k].pc = "loaded"
    /\ CanSpawn
    /\ meta' = [reqs[k].snap EXCEPT !.cancelRequested = FALSE, !.status = "processing"]
    /\ workers' = [workers EXCEPT ![FreeTid] = SpawnedWorker({}, reqs[k].snap)]
    /\ reqs' = [reqs EXCEPT ![k] = Answered("start", <<"processing">>)]
    /\ UNCHANGED <<results, allZipFile, admit>>

\* POST /batch/{id}/cancel: meta = _load_batch_meta(batch_id)
CancelLoad(k) ==
    /\ MayArrive(k)
    /\ reqs' = [reqs EXCEPT ![k] = [NoReq EXCEPT !.op = "cancel", !.pc = "loaded",
                                                  !.snap = meta]]
    /\ UNCHANGED <<meta, results, allZipFile, workers, admit>>

\* cancel_batch: cancelled at once for a batch not started, else the
\* cancelRequested flag and status cancelling
CancelledMeta(m) ==
    IF m.status \in CancelDirectStatuses
    THEN [m EXCEPT !.cancelRequested = FALSE, !.status = "cancelled"]
    ELSE [m EXCEPT !.cancelRequested = TRUE, !.status = "cancelling"]

CancelCommit(k) ==
    /\ reqs[k].op = "cancel" /\ reqs[k].pc = "loaded"
    /\ meta' = CancelledMeta(reqs[k].snap)
    /\ reqs' = [reqs EXCEPT ![k] =
                    [Answered("cancel", <<CancelledMeta(reqs[k].snap).status>>)
                        EXCEPT !.alive = RunningWorkers, !.seen = Statuses(reqs[k].snap),
                               !.stored = Statuses(meta)]]
    /\ UNCHANGED <<results, allZipFile, workers, admit>>

\* POST /batch/{id}/retry-errors: load, and the return when nothing failed
RetryLoad(k) ==
    /\ MayArrive(k)
    /\ IF ErrorPackages(meta) = {}
       THEN reqs' = [reqs EXCEPT ![k] = Answered("retry", <<0>>)]
       ELSE reqs' = [reqs EXCEPT ![k] = [NoReq EXCEPT !.op = "retry", !.pc = "loaded",
                                                     !.snap = meta]]
    /\ UNCHANGED <<meta, results, allZipFile, workers, admit>>

\* retry_batch_errors: status = processing, cancelRequested = False, save,
\* spawn the worker over the error packages
RetryCommit(k) ==
    /\ reqs[k].op = "retry" /\ reqs[k].pc = "loaded"
    /\ CanSpawn
    /\ meta' = [reqs[k].snap EXCEPT !.status = "processing", !.cancelRequested = FALSE]
    /\ workers' = [workers EXCEPT ![FreeTid] = SpawnedWorker(ErrorPackages(reqs[k].snap), reqs[k].snap)]
    /\ reqs' = [reqs EXCEPT ![k] =
                    Answered("retry", <<Cardinality(ErrorPackages(reqs[k].snap))>>)]
    /\ UNCHANGED <<results, allZipFile, admit>>

\* _reconcile_batch_meta: statuses recomputed from the files on disk
ReconcilePackage(pkg, j, files) ==
    IF pkg.status # "done" /\ j \in files
    THEN [pkg EXCEPT !.resultFile = ResultFileName(j), !.status = "done", !.error = None]
    ELSE pkg

ReconcileStatusKeepsStored(pkgs, stored) == stored

ReconcileStatus(pkgs, stored) ==
    LET done_count == CountStatus(pkgs, {"done"})
        error_count == CountStatus(pkgs, {"error"})
        pending_count == CountStatus(pkgs, {"pending", "processing"})
    IN  IF pending_count > 0 THEN "processing"
        ELSE IF error_count > 0 /\ done_count > 0 THEN "partial"
        ELSE IF error_count > 0 /\ done_count = 0 THEN "error"
        ELSE IF done_count > 0 THEN "done"
        ELSE stored

ReconcileChangedAlways(m, files, allExists) == TRUE

ReconcileChanged(m, files, allExists) ==
    \/ \E j \in DOMAIN m.packages : m.packages[j].status # "done" /\ j \in files
    \/ allExists /\ ~m.allZip

Reconcile(m, files, allExists) ==
    IF ~ReconcileChanged(m, files, allExists) THEN m
    ELSE LET pkgs == [j \in DOMAIN m.packages |-> ReconcilePackage(m.packages[j], j, files)]
         IN  [m EXCEPT !.packages = pkgs,
                       !.allZip = m.allZip \/ allExists,
                       !.status = ReconcileStatus(pkgs, m.status)]

\* The body get_batch returns
BatchView(m) == <<m.status, Statuses(m)>>

\* GET /batch/{id} and the downloads: _load_batch_meta
GetLoad(k) ==
    /\ MayArrive(k)
    /\ reqs' = [reqs EXCEPT ![k] = [NoReq EXCEPT !.op = "get", !.pc = "loaded",
                                                  !.snap = meta]]
    /\ UNCHANGED <<meta, results, allZipFile, workers, admit>>

\* _reconcile_batch_meta up to `if changed`: the results directory is read
GetScan(k) ==
    LET m == Reconcile(reqs[k].snap, results, allZipFile # None)
    IN  /\ reqs[k].op = "get" /\ reqs[k].pc = "loaded"
        /\ IF ReconcileChanged(reqs[k].snap, results, allZipFile # None)
           THEN reqs' = [reqs EXCEPT ![k].pc = "scanned", ![k].snap = m]
           ELSE reqs' = [reqs EXCEPT ![k] = Answered("get", BatchView(m))]
        /\ UNCHANGED <<meta, results, allZipFile, workers, admit>>

\* _reconcile_batch_meta: _save_batch_meta when something changed
GetSave(k) ==
    /\ reqs[k].op = "get" /\ reqs[k].pc = "scanned"
    /\ meta' = reqs[k].snap
    /\ reqs' = [reqs EXCEPT ![k] = Answered("get", BatchView(reqs[k].snap))]
    /\ UNCHANGED <<results, allZipFile, workers, admit>>

\* --------------------------------------------------------- batch admission
\* An archive member is <<top-level name, kind>>: "inner" is a file inside
\* the top-level folder, "file" a file at top level, "direntry" the entry
\* "name/" of a folder with nothing in it, "unsafe" a path that normalises
\* to ".." or to an absolute path.
HiddenFolder == <<95, 95, 109>>

ExtraMembers ==
    {<<HiddenFolder, "inner">>, <<<<114>>, "file">>, <<<<122>>, "direntry">>,
     <<<<46, 46>>, "unsafe">>}

Archives ==
    [zipNamed : BOOLEAN, tooBig : BOOLEAN, wellFormed : BOOLEAN,
     members : {{<<f, "inner">> : f \in PlainFolders(n)} \cup x :
                    n \in 0..MaxFolders, x \in SUBSET ExtraMembers}]

\* name.startswith("__")
StartsWithDunder(name) == Len(name) >= 2 /\ name[1] = 95 /\ name[2] = 95

\* _safe_extract_zip: entries ending in "/" are skipped, an unsafe path is
\* refused, every other member is written below input/
Unsafe(a) == \E m \in a.members : m[2] = "unsafe"

\* pkg_folders: the directories of input/ not starting with "__"
PackageFolders(a) ==
    {m[1] : m \in {x \in a.members : x[2] = "inner" /\ ~StartsWithDunder(x[1])}}

Reply(code, n) == [code |-> code, packages |-> n]

\* _build_batch_from_zip: the reply, and the meta saved on success
BuildReply(a) ==
    IF ~a.wellFormed THEN Reply(400, 0)
    ELSE IF Unsafe(a) THEN Reply(400, 0)
    ELSE IF PackageFolders(a) = {} THEN Reply(400, 0)
    ELSE IF Cardinality(PackageFolders(a)) > MAX_BATCH_PACKAGES THEN Reply(413, 0)
    ELSE Reply(200, Cardinality(PackageFolders(a)))

\* POST /batch: the file name and size checks, then the call
\* _build_batch_from_zip(.., source_gcs_path=req.gcsPath) in a function that
\* has no `req`: evaluating the argument raises NameError, the request
\* ends 500 and _build_batch_from_zip is never entered.
UploadReply(a) ==
    IF ~a.zipNamed THEN Reply(400, 0)
    ELSE IF a.tooBig THEN Reply(413, 0)
    ELSE Reply(500, 0)

\* POST /batch/from-gcs: the object-store checks, the download, the build
GcsStates == {"ok", "disabled", "badBucket", "missing"}

FromGcsReply(a, gcs) ==
    IF gcs \in {"disabled", "badBucket"} THEN Reply(400, 0)
    ELSE IF gcs = "missing" THEN Reply(404, 0)
    ELSE IF a.tooBig THEN Reply(413, 0)
    ELSE BuildReply(a)

NoAdmission ==
    [pc |-> "idle", path |-> "none", gcs |-> "none", archive |-> None, resp |-> None]

CreateBatch(a) ==
    /\ admit.pc = "idle"
    /\ admit' = [pc |-> "done", path |-> "upload", gcs |-> "none", archive |-> a,
                 resp |-> UploadReply(a)]
    /\ UNCHANGED <<meta, results, allZipFile, workers, reqs>>

CreateBatchFromGcs(a, gcs) ==
    /\ admit.pc = "idle"
    /\ admit' = [pc |-> "done", path |-> "gcs", gcs |-> gcs, archive |-> a,
                 resp |-> FromGcsReply(a, gcs)]
    /\ meta' = IF FromGcsReply(a, gcs).code = 200
               THEN NewBatchMeta(PackageFolders(a)) ELSE meta
    /\ UNCHANGED <<results, allZipFile, workers, reqs>>

\* ------------------------------------------------------------ specification
\* The batch of Spec was admitted from the object store.
AdmittedRequest ==
    [pc |-> "done", path |-> "gcs", gcs |-> "ok",
     archive |-> [zipNamed |-> TRUE, tooBig |-> FALSE, wellFormed |-> TRUE,
                  members |-> {<<f, "inner">> : f \in {meta.packages[j].name :
                                                          j \in DOMAIN meta.packages}}],
     resp |-> Reply(200, Len(meta.packages))]

Init ==
    /\ meta = NewBatchMeta(PlainFolders(NPkg))
    /\ results = {}
    /\ allZipFile = None
    /\ workers = [w \in 1..MaxWorkers |-> NoWorker]
    /\ reqs = [k \in 1..MaxReq |-> NoReq]
    /\ SavesIdle
    /\ admit = AdmittedRequest
    /\ job = None /\ jreq = None /\ normCall = None

WorkerLoad == (\E w \in Tids : WLoad(w)) /\ UNCHANGED jobVars

WorkerBegin == (\E w \in Tids : WBegin(w)) /\ UNCHANGED jobVars

WorkerStart == (\E w \in Tids : WStart(w)) /\ UNCHANGED jobVars

WorkerPoll == (\E w \in Tids : WPoll(w)) /\ UNCHANGED jobVars

WorkerProcess == (\E w \in Tids : WProcess(w)) /\ UNCHANGED jobVars

WorkerSave == (\E w \in Tids : WSave(w)) /\ UNCHANGED jobVars

WorkerZip == (\E w \in Tids : WZip(w)) /\ UNCHANGED jobVars

WorkerFinal == (\E w \in Tids : WFinal(w)) /\ UNCHANGED jobVars

RequestStartLoad == (\E k \in Rids : StartLoad(k)) /\ UNCHANGED jobVars

RequestStartCommit == (\E k \in Rids : StartCommit(k)) /\ UNCHANGED jobVars

RequestCancelLoad == (\E k \in Rids : CancelLoad(k)) /\ UNCHANGED jobVars

RequestCancelCommit == (\E k \in Rids : CancelCommit(k)) /\ UNCHANGED jobVars

RequestRetryLoad == (\E k \in Rids : RetryLoad(k)) /\ UNCHANGED jobVars

RequestRetryCommit == (\E k \in Rids : RetryCommit(k)) /\ UNCHANGED jobVars

RequestGetLoad == (\E k \in Rids : GetLoad(k)) /\ UNCHANGED jobVars

RequestGetScan == (\E k \in Rids : GetScan(k)) /\ UNCHANGED jobVars

RequestGetSave == (\E k \in Rids : GetSave(k)) /\ UNCHANGED jobVars

Next ==
    \/ WorkerLoad
    \/ WorkerBegin
    \/ WorkerStart
    \/ WorkerPoll
    \/ WorkerProcess
    \/ WorkerSave
    \/ WorkerZip
    \/ WorkerFinal
    \/ RequestStartLoad
    \/ RequestStartCommit
    \/ RequestCancelLoad
    \/ RequestCancelCommit
    \/ RequestRetryLoad
    \/ RequestRetryCommit
    \/ RequestGetLoad
    \/ RequestGetScan
    \/ RequestGetSave

Spec == Init /\ [][Next]_vars

InitAdmit ==
    /\ meta = None
    /\ results = {}
    /\ allZipFile = None
    /\ workers = [w \in 1..MaxWorkers |-> NoWorker]
    /\ reqs = [k \in 1..MaxReq |-> NoReq]
    /\ SavesIdle
    /\ admit = NoAdmission
    /\ job = None /\ jreq = None /\ normCall = None

AdmitUpload == (\E a \in Archives : CreateBatch(a)) /\ UNCHANGED jobVars

AdmitFromGcs ==
    (\E a \in Archives : \E gcs \in GcsStates : CreateBatchFromGcs(a, gcs))
    /\ UNCHANGED jobVars

NextAdmit == AdmitUpload \/ AdmitFromGcs

SpecAdmit == InitAdmit /\ [][NextAdmit]_vars

\* ------------------------------------------------------------ job admission
\* SpecJob: uploads of up to MaxUpload files drawn file by file, each PDF of
\* up to MaxPages pages, and the uploads of MAX_FILES and MAX_FILES + 1 PDFs.
MaxUpload == 3
MaxPages == 2

MAX_FILES == 20

\* An uploaded file, or a PDF path of a batch package: "pdf" opens and has
\* `pages` pages, "notPdf" fails the name / content type test, "tooBig" is
\* over MAX_FILE_BYTES, "corrupt" is refused by fitz.open, "ioError" makes
\* the copy raise an exception of another kind.
FileKinds == {"pdf", "notPdf", "tooBig", "corrupt", "ioError"}

Files ==
    {[kind |-> "pdf", pages |-> n] : n \in 0..MaxPages}
    \cup {[kind |-> k, pages |-> 0] : k \in FileKinds \ {"pdf"}}

RECURSIVE SeqsUpTo(_, _)
SeqsUpTo(S, n) ==
    IF n = 0 THEN {<<>>}
    ELSE LET shorter == SeqsUpTo(S, n - 1)
         IN  shorter \cup {Append(q, x) : q \in {y \in shorter : Len(y) = n - 1}, x \in S}

Uploads ==
    SeqsUpTo(Files, MaxUpload)
    \cup {[i \in 1..n |-> [kind |-> "pdf", pages |-> 1]] : n \in {MAX_FILES, MAX_FILES + 1}}

AdmissionPaths == {"http", "package"}

\* HTTPException(status_code, detail) / another exception, by error kind
JobError(status, kind) == [status |-> status, kind |-> kind]

\* os.makedirs(jdir), pdfs/, cache/
EmptyJobDir == [pdfs |-> <<>>, meta |-> None, cache |-> {}]

\* The page loop appending [i, p] for p = 1 .. page_count
PagesOfFromOne(i, n) == [p \in 1..n |-> <<i, p>>]

\* for p in range(doc.page_count): page_map.append([i, p])
RECURSIVE PagesOf(_, _)
PagesOf(i, n) == IF n = 0 THEN <<>> ELSE Append(PagesOf(i, n - 1), <<i, n - 1>>)

\* create_job / _create_job_from_pdf_paths up to the file loop: the count
\* tests, then the job directory is made
CreateJobBegin(path, files, saveFails) ==
    /\ job = None /\ jreq = None
    /\ IF Len(files) = 0
       THEN /\ jreq' = [op |-> "create", pc |-> "done", path |-> path, files |-> files,
                        resp |-> JobError(400, "BadInput")]
            /\ UNCHANGED job
       ELSE IF Len(files) > MAX_FILES
       THEN /\ jreq' = [op |-> "create", pc |-> "done", path |-> path, files |-> files,
                        resp |-> JobError(413, "TooLarge")]
            /\ UNCHANGED job
       ELSE /\ job' = EmptyJobDir
            /\ jreq' = [op |-> "create", pc |-> "file", path |-> path, files |-> files,
                        saveFails |-> saveFails, i |-> 0, page_map |-> <<>>,
                        total_pages |-> 0]
    /\ UNCHANGED <<batchVars, normCall>>

\* An exception that is no HTTPException: create_job answers 500,
\* _create_job_from_pdf_paths raises it again to its caller
Unexpected(path) ==
    IF path = "http" THEN JobError(500, "Internal") ELSE [kind |-> "Unexpected"]

\* The except clauses without the rmtree of the job directory
AdmissionFailedDirLeft(err) ==
    /\ job' = job
    /\ jreq' = [op |-> "create", pc |-> "done", path |-> jreq.path, files |-> jreq.files,
                resp |-> err]

\* The except clauses of admission: the job directory is removed and the
\* error goes to the caller
AdmissionFailed(err) ==
    /\ job' = None
    /\ jreq' = [op |-> "create", pc |-> "done", path |-> jreq.path, files |-> jreq.files,
                resp |-> err]

\* One round of the file loop: file i is tested, copied to pdfs/src_<i>.pdf,
\* opened, and its pages are appended to page_map
CreateJobFile ==
    /\ jreq # None /\ jreq.op = "create" /\ jreq.pc = "file"
    /\ jreq.i < Len(jreq.files)
    /\ LET f == jreq.files[jreq.i + 1]
       IN  CASE f.kind = "notPdf" -> AdmissionFailed(JobError(400, "BadInput"))
             [] f.kind = "tooBig" -> AdmissionFailed(JobError(413, "TooLarge"))
             [] f.kind = "ioError" -> AdmissionFailed(Unexpected(jreq.path))
             [] f.kind = "corrupt" -> AdmissionFailed(JobError(400, "CorruptPdf"))
             [] OTHER ->
                    /\ job' = [job EXCEPT !.pdfs = Append(@, f)]
                    /\ jreq' = [jreq EXCEPT !.i = @ + 1,
                                            !.page_map = @ \o PagesOf(jreq.i, f.pages),
                                            !.total_pages = @ + f.pages]
    /\ UNCHANGED <<batchVars, normCall>>

\* meta = {...}; _save_meta(job_id, meta); the response
CreateJobSave ==
    /\ jreq # None /\ jreq.op = "create" /\ jreq.pc = "file"
    /\ jreq.i = Len(jreq.files)
    /\ IF jreq.saveFails
       THEN AdmissionFailed(Unexpected(jreq.path))
       ELSE /\ job' = [job EXCEPT !.meta = [files |-> Len(jreq.files),
                                            totalPages |-> jreq.total_pages,
                                            page_map |-> jreq.page_map]]
            /\ jreq' = [op |-> "create", pc |-> "done", path |-> jreq.path,
                        files |-> jreq.files,
                        resp |-> [kind |-> "ok", status |-> 200,
                                  totalPages |-> jreq.total_pages,
                                  files |-> Len(jreq.files)]]
    /\ UNCHANGED <<batchVars, normCall>>

InitJob ==
    /\ meta = None
    /\ results = {}
    /\ allZipFile = None
    /\ workers = [w \in 1..MaxWorkers |-> NoWorker]
    /\ reqs = [k \in 1..MaxReq |-> NoReq]
    /\ SavesIdle
    /\ admit = NoAdmission
    /\ job = None /\ jreq = None /\ normCall = None

JobCreateBegin ==
    \E path \in AdmissionPaths : \E files \in Uploads : \E saveFails \in BOOLEAN :
        CreateJobBegin(path, files, saveFails)

NextJob == JobCreateBegin \/ CreateJobFile \/ CreateJobSave

SpecJob == InitJob /\ [][NextJob]_vars

\* ------------------------------------------------------------ rule classifier
CategoriesFevFirst == <<"FEV", "CRC", "HEV", "OPF", "PDE">>

CATEGORIES == <<"CRC", "FEV", "HEV", "OPF", "PDE">>

CategorySet == {CATEGORIES[c] : c \in DOMAIN CATEGORIES}

\* A page text, after _normalize_ocr_text, is the set of the phrases it
\* holds with its counts of dd/mm/yyyy dates and hh:mm times; `blank` is the
\* empty string.  A phrase holds the phrases that are substrings of it.
Substrings(phrase) ==
    CASE phrase = "DECISIONES" -> {"DECISION"}
      [] phrase = "ATENCION CUIDADOR" -> {"CUIDADOR"}
      [] phrase = "REGISTRO DE ACTIVIDADES DE CUIDADOR" ->
             {"REGISTRO DE ACTIVIDADES DE CUIDADO", "CUIDADOR"}
      [] phrase = "MES INICIO" -> {"MES"}
      [] phrase = "FECHA CREACION" -> {"FECHA"}
      [] phrase = "HORARIO" -> {"HORA"}
      [] phrase = "AUTORIZACION SERVICIOS" -> {"SERVICIO"}
      [] phrase = "CERTIFICACION PRESTACION DE SERVICIOS" -> {"SERVICIO"}
      [] phrase = "CERTIFICACION PRESTACION DE SERVICIOS POR CONCEPTO" ->
             {"CERTIFICACION PRESTACION DE SERVICIOS", "SERVICIO"}
      [] phrase = "CERTIFICACION DETALLE DE CARGOS" -> {"DETALLE DE CARGOS"}
      [] OTHER -> {}

\* `phrase in t`
In(phrase, t) ==
    \E held \in t.phrases : phrase = held \/ phrase \in Substrings(held)

Text(phrases, dates, times) ==
    [blank |-> FALSE, phrases |-> phrases, dates |-> dates, times |-> times]

BlankText == [blank |-> TRUE, phrases |-> {}, dates |-> 0, times |-> 0]

\* _AUTO_RULES_STRONG, in order (the accented patterns, which no text without
\* accents holds, and the pattern with a trailing blank are left out)
AutoRulesFevFirst ==
    <<<<"FEV", {"FACTURA ELECTRONICA DE VENTA", "NOTA DE CREDITO ELECTRONICA",
                "DETALLE DE CARGOS", "FACTURA OCFE"}>>,
      <<"PDE", {"AUTORIZACION SERVICIOS"}>>,
      <<"OPF", {"ORDEN MEDICA"}>>,
      <<"CRC", {"REGISTRO DE ATENCION DOMICILIARIA"}>>,
      <<"HEV", {"CERTIFICACION PRESTACION DE SERVICIOS",
                "CERTIFICACION PRESTACION DE SERVICIOS POR CONCEPTO",
                "CERTIFICACION DETALLE DE CARGOS"}>>,
      <<"HEV", {"REGISTRO DE ACTIVIDADES DE CUIDADO",
                "REGISTRO DE ACTIVIDADES DE CUIDADOR"}>>,
      <<"HEV", {"HISTORIA CLINICA", "TRABAJO SOCIAL"}>>>>

AUTO_RULES_STRONG ==
    <<<<"PDE", {"AUTORIZACION SERVICIOS"}>>,
      <<"OPF", {"ORDEN MEDICA"}>>,
      <<"CRC", {"REGISTRO DE ATENCION DOMICILIARIA"}>>,
      <<"HEV", {"CERTIFICACION PRESTACION DE SERVICIOS",
                "CERTIFICACION PRESTACION DE SERVICIOS POR CONCEPTO",
                "CERTIFICACION DETALLE DE CARGOS"}>>,
      <<"HEV", {"REGISTRO DE ACTIVIDADES DE CUIDADO",
                "REGISTRO DE ACTIVIDADES DE CUIDADOR"}>>,
      <<"HEV", {"HISTORIA CLINICA", "TRABAJO SOCIAL"}>>,
      <<"FEV", {"FACTURA ELECTRONICA DE VENTA", "NOTA DE CREDITO ELECTRONICA",
                "DETALLE DE CARGOS", "FACTURA OCFE"}>>>>

\* _has_crc_table_hint
HasCrcTableHint(t) ==
    LET has_cuidador == In("ATENCION CUIDADOR", t) \/ In("CUIDADOR", t)
        has_fecha_creacion == In("FECHA CREACION", t)
        header_keys == {"FECHA", "HORA", "TURNO", "SERVICIO", "PRESTADOR", "NOMBRE",
                        "TUTOR", "PACIENTE", "FIRMA"}
        header_hits == Cardinality({k \in header_keys : In(k, t)})
        fallback_rows == has_cuidador /\ t.dates >= 2 /\ t.times >= 2 /\ ~has_fecha_creacion
        fallback_headers == has_cuidador /\ header_hits >= 5 /\ ~has_fecha_creacion
    IN  IF t.blank THEN FALSE
        ELSE IF /\ In("SERVICIO", t)
                /\ In("PRESTADOR", t)
                /\ In("TURNO", t) /\ (In("HORA", t) \/ In("HORARIO", t))
                /\ In("NOMBRE", t) /\ (In("TUTOR", t) \/ In("PACIENTE", t))
                /\ In("FIRMA", t)
                /\ (In("N.", t) \/ In("N(degree sign)", t) \/ In("NO.", t) \/ In("NRO", t))
                /\ (In("ATENCION CUIDADOR", t) \/ In("CUIDADOR", t))
             THEN TRUE
        ELSE fallback_headers \/ fallback_rows

\* _has_opf_table_hint
HasOpfTableHint(t) ==
    IF t.blank THEN FALSE
    ELSE /\ In("DECISION", t) \/ In("DECISIONES", t)
         /\ \/ In("MES INICIO", t) \/ In("MES", t)
            \/ In("DETALLES", t)
            \/ In("OBSERVACIONES", t)

\* None where a category is expected
NoCategory == "None"

\* The first rule of AUTO_RULES_STRONG, from rule r on, with a pattern in t
RECURSIVE FirstStrongRule(_, _)
FirstStrongRule(t, r) ==
    IF r > Len(AUTO_RULES_STRONG) THEN NoCategory
    ELSE IF \E ph \in AUTO_RULES_STRONG[r][2] : In(ph, t) THEN AUTO_RULES_STRONG[r][1]
    ELSE FirstStrongRule(t, r + 1)

\* _classify_text(text, allow_crc_table): the body never reads allow_crc_table
ClassifyText(t, allow_crc_table) ==
    LET has_hev_hint == \/ In("REGISTRO DE ACTIVIDADES DE CUIDADO", t)
                        \/ In("REGISTRO DE ACTIVIDADES DE CUIDADOR", t)
                        \/ In("HISTORIA CLINICA", t)
                        \/ In("TRABAJO SOCIAL", t)
        has_opf_phrase == In("ORDEN MEDICA", t)
        has_opf_header == has_opf_phrase /\ (In("DECISIONES", t) \/ In("DECISION", t))
    IN  IF t.blank THEN NoCategory
        ELSE IF has_opf_header THEN "OPF"
        ELSE IF has_hev_hint THEN "HEV"
        ELSE IF has_opf_phrase THEN "OPF"
        ELSE IF HasOpfTableHint(t) THEN "OPF"
        ELSE IF FirstStrongRule(t, 1) # NoCategory THEN FirstStrongRule(t, 1)
        ELSE IF HasCrcTableHint(t) THEN "CRC"
        ELSE NoCategory

\* ------------------------------------------------------------ auto-classify
\* SpecClassify: jobs of up to ClassifyPdfs source PDFs and ClassifyPages
\* pages in all, each page with one of ClassifyTexts.
ClassifyPdfs == 2
ClassifyPages == 3

TableHeaderText ==
    Text({"SERVICIO", "PRESTADOR", "TURNO", "HORA", "NOMBRE", "PACIENTE", "FIRMA", "NRO",
          "CUIDADOR"}, 0, 0)

\* The texts _page_text_for_classification hands over for a page
ClassifyTexts ==
    {BlankText,
     Text({}, 0, 0),
     Text({"FACTURA ELECTRONICA DE VENTA"}, 0, 0),
     Text({"REGISTRO DE ATENCION DOMICILIARIA"}, 0, 0),
     Text({"AUTORIZACION SERVICIOS"}, 0, 0),
     Text({"HISTORIA CLINICA"}, 0, 0),
     Text({"ORDEN MEDICA"}, 0, 0),
     TableHeaderText,
     Text({"CUIDADOR"}, 2, 2),
     Text({"CUIDADOR", "FECHA CREACION"}, 2, 2)}

RECURSIVE SumSeq(_)
SumSeq(q) == IF q = <<>> THEN 0 ELSE q[Len(q)] + SumSeq(SubSeq(q, 1, Len(q) - 1))

\* The page index admission builds for source PDFs of the given page counts
RECURSIVE PageMapOf(_)
PageMapOf(counts) ==
    IF counts = <<>> THEN <<>>
    ELSE PageMapOf(SubSeq(counts, 1, Len(counts) - 1))
         \o PagesOf(Len(counts) - 1, counts[Len(counts)])

\* The job directory admission leaves for source PDFs of these page counts
AdmittedJob(counts) ==
    [pdfs |-> [i \in 1..Len(counts) |-> [kind |-> "pdf", pages |-> counts[i]]],
     meta |-> [files |-> Len(counts), totalPages |-> SumSeq(counts),
               page_map |-> PageMapOf(counts)],
     cache |-> {}]

ClassifyLayouts ==
    {q \in SeqsUpTo(0..ClassifyPages, ClassifyPdfs) : q # <<>> /\ SumSeq(q) <= ClassifyPages}

\* str(i)
RECURSIVE Str(_)
Str(i) == IF i < 10 THEN <<48 + i>> ELSE Append(Str(i \div 10), 48 + (i % 10))

\* per_pdf[pdf_idx]: the global pages (from 1) of source PDF pdf_idx
PerPdf(page_map, pdf_idx) == {g \in 1..Len(page_map) : page_map[g][1] = pdf_idx}

\* strong_hits of a source PDF
StrongHits(strong, pages) == {strong[g] : g \in pages} \ {NoCategory}

\* _auto_classify_internal[_with_cancel] up to the texts: _load_meta, the
\* OCR_ENABLED test, _page_text_for_classification for every page
AutoClassifyBegin(ocr_enabled) ==
    /\ jreq = None
    /\ IF job = None \/ job.meta = None
       THEN jreq' = [op |-> "classify", pc |-> "done", resp |-> JobError(404, "NotFound")]
       ELSE IF ~ocr_enabled
       THEN jreq' = [op |-> "classify", pc |-> "done", resp |-> JobError(503, "OcrDisabled")]
       ELSE jreq' = [op |-> "classify", pc |-> "first", total |-> job.meta.totalPages,
                     page_map |-> job.meta.page_map, texts |-> job.texts,
                     strong |-> <<>>, classifications |-> <<>>]
    /\ IF job # None /\ job.meta # None /\ ocr_enabled
       THEN \* _extract_page_text leaves text_<i>.txt in the cache
            job' = [job EXCEPT !.cache = @ \cup {<<"text", i>> :
                                                     i \in 0..(job.meta.totalPages - 1)}]
       ELSE job' = job
    /\ UNCHANGED <<batchVars, normCall>>

\* Primera pasada: strong[i] = _classify_text(texts[i], allow_crc_table=False)
AutoClassifyFirstPass ==
    /\ jreq # None /\ jreq.op = "classify" /\ jreq.pc = "first"
    /\ jreq' = [jreq EXCEPT !.pc = "second",
                            !.strong = [g \in 1..jreq.total |->
                                            ClassifyText(jreq.texts[g], FALSE)]]
    /\ UNCHANGED <<batchVars, job, normCall>>

SecondPassNoDefault(strong, texts, page_map, g) ==
    IF strong[g] # NoCategory THEN strong[g]
    ELSE ClassifyText(texts[g],
                      \E h \in PerPdf(page_map, page_map[g][1]) : strong[h] = "CRC")

\* Segunda pasada: the strong category, or the classifier with the CRC table
\* allowed when the page's PDF has a strong CRC page, or HEV
SecondPass(strong, texts, page_map, g) ==
    LET pdf_idx == page_map[g][1]
        allow_crc == \E h \in PerPdf(page_map, pdf_idx) : strong[h] = "CRC"
        again == ClassifyText(texts[g], allow_crc)
    IN  IF strong[g] # NoCategory THEN strong[g]
        ELSE IF again # NoCategory THEN again ELSE "HEV"

AutoClassifySecondPass ==
    /\ jreq # None /\ jreq.op = "classify" /\ jreq.pc = "second"
    /\ jreq' = [jreq EXCEPT !.pc = "propagate",
                    !.classifications = [g \in 1..jreq.total |->
                        <<Str(g - 1),
                          SecondPass(jreq.strong, jreq.texts, jreq.page_map, g)>>]]
    /\ UNCHANGED <<batchVars, job, normCall>>

PropagatedNever(strong, page_map, g, current) == current

\* Propagar: a PDF whose strong hits are one category of FEV, CRC, PDE gives
\* it to its pages without a strong category
Propagated(strong, page_map, g, current) ==
    LET hits == StrongHits(strong, PerPdf(page_map, page_map[g][1]))
    IN  IF /\ Cardinality(hits) = 1
           /\ hits \subseteq {"FEV", "CRC", "PDE"}
           /\ strong[g] = NoCategory
        THEN CHOOSE c \in hits : TRUE
        ELSE current

\* The map _auto_classify_internal returns for these texts and page index
AutoClassifyInternal(texts, page_map) ==
    LET strong == [g \in 1..Len(page_map) |-> ClassifyText(texts[g], FALSE)]
    IN  [g \in 1..Len(page_map) |->
            <<Str(g - 1),
              Propagated(strong, page_map, g, SecondPass(strong, texts, page_map, g))>>]

AutoClassifyPropagate ==
    /\ jreq # None /\ jreq.op = "classify" /\ jreq.pc = "propagate"
    /\ jreq' = [op |-> "classify", pc |-> "done", total |-> jreq.total,
                page_map |-> jreq.page_map, texts |-> jreq.texts, strong |-> jreq.strong,
                resp |-> [kind |-> "ok", status |-> 200,
                          classifications |-> [g \in 1..jreq.total |->
                              <<jreq.classifications[g][1],
                                Propagated(jreq.strong, jreq.page_map, g,
                                           jreq.classifications[g][2])>>]]]
    /\ UNCHANGED <<batchVars, job, normCall>>

InitClassify ==
    /\ meta = None
    /\ results = {}
    /\ allZipFile = None
    /\ workers = [w \in 1..MaxWorkers |-> NoWorker]
    /\ reqs = [k \in 1..MaxReq |-> NoReq]
    /\ SavesIdle
    /\ admit = NoAdmission
    /\ \E counts \in ClassifyLayouts :
           \E texts \in [1..SumSeq(counts) -> ClassifyTexts] :
               job = [pdfs |-> AdmittedJob(counts).pdfs, meta |-> AdmittedJob(counts).meta,
                      cache |-> {}, texts |-> texts]
    /\ jreq = None /\ normCall = None

AutoClassifyStart == \E ocr_enabled \in BOOLEAN : AutoClassifyBegin(ocr_enabled)

NextClassify ==
    \/ AutoClassifyStart
    \/ AutoClassifyFirstPass
    \/ AutoClassifySecondPass
    \/ AutoClassifyPropagate

SpecClassify == InitClassify /\ [][NextClassify]_vars

\* ------------------------------------------------------- invoice code
\* A string is the sequence of its characters; None stands for null (no
\* result of the normalisations below is the empty string).
UpperLetters ==
    <<"A", "B", "C", "D", "E", "F", "G", "H", "I", "J", "K", "L", "M",
      "N", "O", "P", "Q", "R", "S", "T", "U", "V", "W", "X", "Y", "Z">>

LowerLetters ==
    <<"a", "b", "c", "d", "e", "f", "g", "h", "i", "j", "k", "l", "m",
      "n", "o", "p", "q", "r", "s", "t", "u", "v", "w", "x", "y", "z">>

DigitChars == {"0", "1", "2", "3", "4", "5", "6", "7", "8", "9"}

WhiteChars == {" ", "\t"}

UpperSet == {UpperLetters[i] : i \in 1..26}

LowerSet == {LowerLetters[i] : i \in 1..26}

IsUpperLetter(c) == c \in UpperSet

\* \w of the regular expressions
IsWordChar(c) ==
    c \in UpperSet \/ c \in LowerSet \/ c \in DigitChars \/ c = "_"

\* str.upper
UpperChar(c) ==
    IF c \in LowerSet
    THEN UpperLetters[CHOOSE i \in 1..26 : LowerLetters[i] = c]
    ELSE c

Upper(s) == [i \in 1..Len(s) |-> UpperChar(s[i])]

\* str.strip
RECURSIVE Strip(_)
Strip(s) ==
    IF s = <<>> THEN s
    ELSE IF s[1] \in WhiteChars THEN Strip(Tail(s))
    ELSE IF s[Len(s)] \in WhiteChars THEN Strip(SubSeq(s, 1, Len(s) - 1))
    ELSE s

\* str.replace(c, "")
RECURSIVE Without(_, _)
Without(s, c) ==
    IF s = <<>> THEN s
    ELSE IF s[1] = c THEN Without(Tail(s), c)
    ELSE <<s[1]>> \o Without(Tail(s), c)

\* str.isdigit
IsDigit(s) == s # <<>> /\ \A i \in 1..Len(s) : s[i] \in DigitChars

\* The length of the longest run of characters of s from position i on that
\* satisfy the test
RECURSIVE RunLetters(_, _)
RunLetters(s, i) ==
    IF i > Len(s) \/ ~IsUpperLetter(s[i]) THEN 0 ELSE 1 + RunLetters(s, i + 1)

RECURSIVE RunWhite(_, _)
RunWhite(s, i) ==
    IF i > Len(s) \/ s[i] \notin WhiteChars THEN 0 ELSE 1 + RunWhite(s, i + 1)

RECURSIVE RunDigits(_, _)
RunDigits(s, i) ==
    IF i > Len(s) \/ s[i] \notin DigitChars THEN 0 ELSE 1 + RunDigits(s, i + 1)

\* \b between positions i - 1 and i of s
WordBoundary(s, i) ==
    LET before == i > 1 /\ IsWordChar(s[i - 1])
        after == i <= Len(s) /\ IsWordChar(s[i])
    IN  before # after

\* The match of \b([A-Z]{3,6})\s*(\d{3,})\b that starts at position i, as
\* <<prefix, digits>>, or None.  Letters, blanks and digits being disjoint,
\* each group can only be the whole run found there.
MatchAt(s, i) ==
    LET k == RunLetters(s, i)
        w == RunWhite(s, i + k)
        d == RunDigits(s, i + k + w)
    IN  IF /\ WordBoundary(s, i)
           /\ k >= 3 /\ k <= 6
           /\ d >= 3
           /\ WordBoundary(s, i + k + w + d)
        THEN <<SubSeq(s, i, i + k - 1), SubSeq(s, i + k + w, i + k + w + d - 1)>>
        ELSE None

\* re.search: the match at the leftmost position that has one
RECURSIVE SearchFrom(_, _)
SearchFrom(s, i) ==
    IF i > Len(s) THEN None
    ELSE IF MatchAt(s, i) # None THEN MatchAt(s, i)
    ELSE SearchFrom(s, i + 1)

Search(s) == SearchFrom(s, 1)

RejectedPrefixes == {<<"N", "I", "T">>, <<"C", "U", "D", "E">>}

\* _normalize_invoice_code
NormalizeInvoiceCode(code_raw) ==
    LET s == Without(Upper(Strip(code_raw)), " ")
        m == Search(s)
    IN  IF s = <<>> THEN None
        ELSE IF IsDigit(s) THEN <<"O", "C", "F", "E">> \o s
        ELSE IF m = None THEN None
        ELSE IF m[1] \in RejectedPrefixes THEN None
        ELSE m[1] \o m[2]

\* The codes handed to the normalisation: an optional leading character, a
\* letter part, an optional blank, a digit part and an optional tail
InvoiceLeads == {<<>>, <<" ">>, <<"-">>, <<"_">>}

InvoiceLetterParts ==
    {<<>>, <<"A", "B">>, <<"A", "B", "C">>, <<"e", "c", "u", "c">>, <<"N", "I", "T">>,
     <<"C", "U", "F", "E">>, <<"C", "U", "D", "E">>, <<"O", "C", "F", "E">>,
     <<"A", "B", "C", "D", "E", "F">>, <<"A", "B", "C", "D", "E", "F", "G">>}

InvoiceMids == {<<>>, <<" ">>, <<"\t">>}

InvoiceDigitParts ==
    {<<>>, <<"1", "2">>, <<"1", "2", "3">>, <<"1", " ", "2", "3">>, <<"0", "0", "4", "5">>}

InvoiceTails == {<<>>, <<"X">>, <<"-", "9">>, <<" ">>}

InvoiceInputs ==
    {l \o p \o m \o d \o t : l \in InvoiceLeads, p \in InvoiceLetterParts, m \in InvoiceMids,
                             d \in InvoiceDigitParts, t \in InvoiceTails}

NormalizeInvoiceCall(code_raw) ==
    /\ normCall = None
    /\ normCall' = [arg |-> code_raw, result |-> NormalizeInvoiceCode(code_raw)]
    /\ UNCHANGED <<batchVars, job, jreq>>

InitInvoice ==
    /\ meta = None
    /\ results = {}
    /\ allZipFile = None
    /\ workers = [w \in 1..MaxWorkers |-> NoWorker]
    /\ reqs = [k \in 1..MaxReq |-> NoReq]
    /\ SavesIdle
    /\ admit = NoAdmission
    /\ job = None /\ jreq = None /\ normCall = None

NormalizeInvoice == \E code_raw \in InvoiceInputs : NormalizeInvoiceCall(code_raw)

NextInvoice == NormalizeInvoice

SpecInvoice == InitInvoice /\ [][NextInvoice]_vars

\* ------------------------------------------------------------ process job
\* SpecProcess: a job of ProcessPages pages and the classification map its
\* client sends; process requests with overrides and keepJob, and at most
\* MaxOtherRequests requests of the other kinds.
ProcessPages == 3
MaxOtherRequests == 1

\* s.split("-")[0]
RECURSIVE BeforeHyphen(_)
BeforeHyphen(s) ==
    IF s = <<>> \/ s[1] = "-" THEN <<>> ELSE <<s[1]>> \o BeforeHyphen(Tail(s))

\* "".join(ch for ch in s if ch.isdigit())
RECURSIVE OnlyDigits(_)
OnlyDigits(s) ==
    IF s = <<>> THEN s
    ELSE IF s[1] \in DigitChars THEN <<s[1]>> \o OnlyDigits(Tail(s))
    ELSE OnlyDigits(Tail(s))

\* _normalize_nit
NormalizeNit(nit_raw) ==
    OnlyDigits(BeforeHyphen(Without(Without(Without(Upper(Strip(nit_raw)), "."), ","), " ")))

\* int(k) of a key of the classification map: blanks around, a sign, digits;
\* ValueError for anything else
DigitSeq == <<"0", "1", "2", "3", "4", "5", "6", "7", "8", "9">>

RECURSIVE DigitsValue(_)
DigitsValue(ds) ==
    IF ds = <<>> THEN 0
    ELSE 10 * DigitsValue(SubSeq(ds, 1, Len(ds) - 1))
         + (CHOOSE v \in 0..9 : DigitSeq[v + 1] = ds[Len(ds)])

ParseIntNeverFails(k) == [ValueError |-> FALSE, idx |-> 0]

ParseInt(k) ==
    LET t == Strip(k)
        signed == t # <<>> /\ t[1] \in {"+", "-"}
        ds == IF signed THEN Tail(t) ELSE t
    IN  IF ~IsDigit(ds) THEN [ValueError |-> TRUE, idx |-> 0]
        ELSE IF signed /\ t[1] = "-" THEN [ValueError |-> FALSE, idx |-> 0 - DigitsValue(ds)]
        ELSE [ValueError |-> FALSE, idx |-> DigitsValue(ds)]

\* pages_by_cat[cat]: the page indexes of the entries of category cat whose
\* key is an integer within range and whose value is not null, in the
\* iteration order of the map
RECURSIVE PagesByCat(_, _, _)
PagesByCat(classifications, total, cat) ==
    IF classifications = <<>> THEN <<>>
    ELSE LET k == classifications[1][1]
             v == classifications[1][2]
             rest == PagesByCat(Tail(classifications), total, cat)
         IN  IF ParseInt(k).ValueError THEN rest
             ELSE IF ParseInt(k).idx < 0 \/ ParseInt(k).idx >= total THEN rest
             ELSE IF v = NoCategory THEN rest
             ELSE IF v = cat THEN <<ParseInt(k).idx>> \o rest
             ELSE rest

\* _build_pdf_from_global_pages: the source pages <<pdf_idx, page_idx>> of the
\* global pages given, in the order given; an index out of the map is skipped
RECURSIVE BuildPdfFromGlobalPages(_, _)
BuildPdfFromGlobalPages(mapping, global_pages) ==
    IF global_pages = <<>> THEN <<>>
    ELSE LET g == global_pages[1]
             rest == BuildPdfFromGlobalPages(mapping, Tail(global_pages))
         IN  IF g < 0 \/ g >= Len(mapping) THEN rest ELSE <<mapping[g + 1]>> \o rest

\* What _extract_nit_invoice_from_doc and the text fallback find in the
\* document of the FEV pages: the first NIT and the first invoice code that
\* a page of it holds
RECURSIVE FirstFound(_, _, _)
FirstFound(content, global_pages, field) ==
    IF global_pages = <<>> THEN None
    ELSE IF content[global_pages[1] + 1][field] # None THEN content[global_pages[1] + 1][field]
    ELSE FirstFound(content, Tail(global_pages), field)

\* None where a creation date is expected; the dates are 1, 2, ..
NoFecha == 0

\* The sort key of an HEV page: (1 if fecha is None else 0, fecha or
\* datetime.max, idx); FechaMax stands for datetime.max
FechaMax == 9

HevKey(content, idx) ==
    LET fecha == content[idx + 1].fecha
    IN  IF fecha = NoFecha THEN <<1, FechaMax, idx>> ELSE <<0, fecha, idx>>

KeyLess(a, b) ==
    \/ a[1] < b[1]
    \/ a[1] = b[1] /\ a[2] < b[2]
    \/ a[1] = b[1] /\ a[2] = b[2] /\ a[3] < b[3]

\* [k[2] for k in sorted(keyed)]
RECURSIVE SortedHev(_, _)
SortedHev(content, pages) ==
    IF pages = <<>> THEN <<>>
    ELSE LET least == CHOOSE i \in 1..Len(pages) :
                          \A j \in 1..Len(pages) :
                              ~KeyLess(HevKey(content, pages[j]), HevKey(content, pages[i]))
             others == [j \in 1..(Len(pages) - 1) |->
                            IF j < least THEN pages[j] ELSE pages[j + 1]]
         IN  <<pages[least]>> \o SortedHev(content, others)

\* output_files: for each category in the order of CATEGORIES that has
\* pages, the file name and the pages of its PDF
RECURSIVE OutputFiles(_, _, _, _, _)
OutputFiles(j, classifications, nit, ocfe, c) ==
    IF c > Len(CATEGORIES) THEN <<>>
    ELSE LET cat == CATEGORIES[c]
             assigned == PagesByCat(classifications, j.meta.totalPages, cat)
             pages == IF cat = "HEV" THEN SortedHev(j.content, assigned) ELSE assigned
             rest == OutputFiles(j, classifications, nit, ocfe, c + 1)
         IN  IF pages = <<>> THEN rest
             ELSE <<[filename |-> <<cat, "_">> \o nit \o <<"_">> \o ocfe \o <<".pdf">>,
                     pages |-> BuildPdfFromGlobalPages(j.meta.page_map, pages)]>> \o rest

\* The text_<i>.txt files _get_fecha_creacion_for_page leaves in the cache
FechaCache(j, classifications) ==
    LET hev == PagesByCat(classifications, j.meta.totalPages, "HEV")
    IN  {<<"text", hev[i]>> : i \in 1..Len(hev)}

JobAlwaysKept(j, classifications, keepJob) ==
    [j EXCEPT !.cache = @ \cup FechaCache(j, classifications)]

\* `if not req.keepJob: shutil.rmtree(_job_dir(job_id), ignore_errors=True)`
JobAfterProcess(j, classifications, keepJob) ==
    IF keepJob THEN [j EXCEPT !.cache = @ \cup FechaCache(j, classifications)] ELSE None

NoFevKeepsGoing(fev) == FALSE

\* `len(pages_by_cat["FEV"]) == 0`
NoFev(fev) == fev = <<>>

\* `_normalize_nit(req.nitOverride) if req.nitOverride else None`
NitFromOverride(override) == IF override # None THEN NormalizeNit(override) ELSE None

\* `_normalize_invoice_code(req.ocfeOverride) if req.ocfeOverride else None`
OcfeFromOverride(override) == IF override # None THEN NormalizeInvoiceCode(override) ELSE None

\* _process_job_bytes on job directory j: the response and the job
\* directory it leaves
ProcessJobBytes(j, classifications, nitOverride, ocfeOverride, keepJob) ==
    IF j = None \/ j.meta = None
    THEN [resp |-> JobError(404, "NotFound"), job |-> j]
    ELSE
    LET fev == PagesByCat(classifications, j.meta.totalPages, "FEV")
        nit_override == NitFromOverride(nitOverride)
        ocfe_override == OcfeFromOverride(ocfeOverride)
        nit == IF nit_override = None
               THEN FirstFound(j.content, fev, "nit") ELSE nit_override
        ocfe == IF ocfe_override = None
                THEN FirstFound(j.content, fev, "ocfe") ELSE ocfe_override
    IN  IF NoFev(fev)
        THEN [resp |-> JobError(400, "FevRequired"), job |-> j]
        ELSE IF nit = None \/ ocfe = None
        THEN [resp |-> [kind |-> "Unresolved", status |-> 422,
                        nitDetected |-> nit, ocfeDetected |-> ocfe],
              job |-> j]
        ELSE [resp |-> [kind |-> "ok", status |-> 200,
                        filename |-> ocfe \o <<".zip">>,
                        files |-> OutputFiles(j, classifications, nit, ocfe, 1)],
              job |-> JobAfterProcess(j, classifications, keepJob)]

\* The pages of the jobs of SpecProcess: an invoice page, a page with a NIT
\* and a creation date, a page with an earlier creation date, a plain page
InvoicePage ==
    [nit |-> <<"8", "0", "0">>, ocfe |-> <<"O", "C", "F", "E", "7", "7", "7">>, fecha |-> NoFecha,
     text |-> Text({"FACTURA ELECTRONICA DE VENTA"}, 0, 0)]

NitDatedPage ==
    [nit |-> <<"8", "0", "0">>, ocfe |-> None, fecha |-> 2,
     text |-> Text({"HISTORIA CLINICA", "FECHA CREACION"}, 1, 1)]

DatedPage ==
    [nit |-> None, ocfe |-> None, fecha |-> 1, text |-> Text({"FECHA CREACION"}, 1, 1)]

PlainPage == [nit |-> None, ocfe |-> None, fecha |-> NoFecha, text |-> BlankText]

PageContents == <<InvoicePage, NitDatedPage, DatedPage, PlainPage>>

\* The pages of a job: the four kinds in turn, from any of them on
JobContents ==
    {[g \in 1..ProcessPages |-> PageContents[((g + r) % 4) + 1]] : r \in 0..3}

ProcessLayouts == {<<ProcessPages>>, <<1, ProcessPages - 1>>}

\* The keys and the values of the classification maps sent
KeyOrders ==
    {<<>>,
     <<<<"0">>>>,
     <<<<"1">>, <<"0">>>>,
     <<<<"2">>, <<"0">>, <<"1">>>>,
     <<<<"1">>, <<"0", "1">>, <<"x">>>>,
     <<<<"0">>, <<"3">>, <<"-", "1">>>>}

MapValues(ks) ==
    IF Len(ks) < 3 THEN CategorySet \cup {NoCategory}
    ELSE IF \A i \in 1..Len(ks) : ks[i] \in {<<"0">>, <<"1">>, <<"2">>}
    THEN {"FEV", "HEV", "PDE", NoCategory}
    ELSE {"FEV", "HEV"}

ClassificationMaps ==
    UNION {{[i \in 1..Len(ks) |-> <<ks[i], vs[i]>>] : vs \in [1..Len(ks) -> MapValues(ks)]} :
           ks \in KeyOrders}

\* The nitOverride and ocfeOverride of the process requests sent
Overrides ==
    {<<None, None>>,
     <<<<"9", "0", "0", ".", "2", "0", "4", "-", "5">>, <<"o", "c", "f", " ", "1", "2", "3">>>>,
     <<<<"9", "0", "0", ".", "2", "0", "4", "-", "5">>, None>>,
     <<<<"-", "5">>, <<"o", "c", "f", " ", "1", "2", "3">>>>,
     <<<<"9", "0", "0", ".", "2", "0", "4", "-", "5">>,
       <<"A", "B", "C", "1", "2", "3", "X">>>>}

NoArgs == [nitOverride |-> None, ocfeOverride |-> None, keepJob |-> FALSE]

\* POST /jobs/{job_id}/process
ProcessJobCall(nitOverride, ocfeOverride, keepJob) ==
    LET out == ProcessJobBytes(job, jreq.classifications, nitOverride, ocfeOverride, keepJob)
        args == [nitOverride |-> nitOverride, ocfeOverride |-> ocfeOverride,
                 keepJob |-> keepJob]
    IN  /\ job' = out.job
        /\ jreq' = [jreq EXCEPT !.op = "process", !.args = args, !.resp = out.resp,
                        !.before = IF jreq.op = "process" /\ jreq.args = args
                                      /\ jreq.resp = out.resp
                                   THEN "repeat"
                                   ELSE IF jreq.resp.kind = "Unresolved" THEN "Unresolved"
                                   ELSE "other"]
        /\ UNCHANGED <<batchVars, normCall>>

\* GET thumb.png, view.png, ocr.txt and POST auto-classify: _load_meta, the
\* range test, the OCR_ENABLED test, the answer and the cache file left
OtherResponse(op, page_index, ocr_enabled) ==
    IF job = None \/ job.meta = None THEN JobError(404, "NotFound")
    ELSE IF op # "classify" /\ (page_index < 0 \/ page_index >= job.meta.totalPages)
    THEN JobError(404, "PageOutOfRange")
    ELSE IF op \in {"ocr", "classify"} /\ ~ocr_enabled THEN JobError(503, "OcrDisabled")
    ELSE IF op = "classify"
    THEN [kind |-> "ok", status |-> 200,
          classifications |->
              AutoClassifyInternal([g \in 1..Len(job.content) |-> job.content[g].text],
                                   job.meta.page_map)]
    ELSE [kind |-> "ok", status |-> 200]

OtherCache(op, page_index) ==
    IF op = "classify" THEN {<<"text", i>> : i \in 0..(job.meta.totalPages - 1)}
    ELSE {<<op, page_index>>}

OtherRequestCall(op, page_index, ocr_enabled) ==
    /\ jreq.others < MaxOtherRequests
    /\ LET resp == OtherResponse(op, page_index, ocr_enabled)
       IN  /\ jreq' = [jreq EXCEPT !.op = op,
                           !.args = [NoArgs EXCEPT !.keepJob = ocr_enabled],
                           !.resp = resp, !.before = "other", !.others = @ + 1]
           /\ job' = IF resp.kind = "ok"
                     THEN [job EXCEPT !.cache = @ \cup OtherCache(op, page_index)]
                     ELSE job
    /\ UNCHANGED <<batchVars, normCall>>

\* An admitted job and the classification map of its client, one of maps
InitJobWithMap(maps) ==
    /\ meta = None
    /\ results = {}
    /\ allZipFile = None
    /\ workers = [w \in 1..MaxWorkers |-> NoWorker]
    /\ reqs = [k \in 1..MaxReq |-> NoReq]
    /\ SavesIdle
    /\ admit = NoAdmission
    /\ \E counts \in ProcessLayouts : \E content \in JobContents :
           job = [pdfs |-> AdmittedJob(counts).pdfs, meta |-> AdmittedJob(counts).meta,
                  cache |-> {}, content |-> content]
    /\ \E classifications \in maps :
           jreq = [classifications |-> classifications, op |-> "none", args |-> NoArgs,
                   resp |-> [kind |-> "none"], before |-> "none", others |-> 0]
    /\ normCall = None

InitProcess == InitJobWithMap(ClassificationMaps)

\* The maps of SpecLater: up to two entries, FEV, HEV or null
LaterMaps ==
    {m \in ClassificationMaps :
        Len(m) <= 2 /\ \A i \in 1..Len(m) : m[i][2] \in {"FEV", "HEV", NoCategory}}

InitLater == InitJobWithMap(LaterMaps)

ProcessJob ==
    \E overrides \in Overrides, keepJob \in BOOLEAN :
        ProcessJobCall(overrides[1], overrides[2], keepJob)

OtherRequest ==
    \E op \in {"thumb", "view", "ocr", "classify"}, page_index \in {0, ProcessPages},
       ocr_enabled \in BOOLEAN :
        OtherRequestCall(op, page_index, ocr_enabled)

\* Process requests alone, with every classification map
NextProcess == ProcessJob

SpecProcess == InitProcess /\ [][NextProcess]_vars

\* Process requests and the requests of the other kinds
NextLater == ProcessJob \/ OtherRequest

SpecLater == InitLater /\ [][NextLater]_vars

\* ------------------------------------------------------------ meta file
\* _save_batch_meta and _load_batch_meta at the level of their system calls:
\* MaxSavers threads save the meta of one batch MaxSaves times each, while
\* MaxLoaders threads load it. A record reaches its file in RecordChunks
\* write() calls.
MaxSavers == 2
MaxSaves == 2
MaxLoaders == 1
RecordChunks == 2

\* for _ in range(3)
LoadTries == 3

Sids == 1..MaxSavers

Lids == 1..MaxLoaders

Inodes == 1..(MaxSavers + 2)

\* The bytes of a file are a sequence of chunks; a chunk is part `part` of
\* the JSON text of record `ver`; Hole is a run of zero bytes
Hole == [ver |-> -1, part |-> 0]

\* json.dump(meta, f): the text of record v
Record(v) == [i \in 1..RecordChunks |-> [ver |-> v, part |-> i]]

\* The record the n-th save of thread w writes
VersionOf(w, n) == w * (MaxSaves + 1) + n

\* write() of one chunk at offset off of a file
WriteAt(content, off, chunk) ==
    IF off < Len(content) THEN [content EXCEPT ![off + 1] = chunk]
    ELSE content \o [i \in 1..(off - Len(content)) |-> Hole] \o <<chunk>>

\* The inodes a name or an open file still refers to
Referenced(d, ss) ==
    {d.meta, d.tmp} \cup {ss[w].fd : w \in {x \in Sids : ss[x].pc = "open"}}

\* The kernel frees an inode once nothing refers to it
Reclaim(d, ss) ==
    [d EXCEPT !.inodes = [i \in Inodes |->
                              IF i \in Referenced(d, ss) THEN d.inodes[i] ELSE <<>>]]

FreeInode == CHOOSE i \in Inodes \ Referenced(disk, savers) :
                 \A o \in Inodes \ Referenced(disk, savers) : i <= o

\* The bytes of meta.json
MetaContent == disk.inodes[disk.meta]

NoSaver == [pc |-> "idle", fd |-> 0, off |-> 0, n |-> 0]

NoLoader == [pc |-> "idle", tries |-> 0, got |-> <<>>]

\* open(tmp_path, "w"): meta.json.tmp is created, or truncated when it is there
SaveOpen(w) ==
    LET ino == IF disk.tmp = 0 THEN FreeInode ELSE disk.tmp
    IN  /\ ~crashed
        /\ savers[w].pc = "idle" /\ savers[w].n < MaxSaves
        /\ disk' = [disk EXCEPT !.tmp = ino, !.inodes[ino] = <<>>]
        /\ savers' = [savers EXCEPT ![w] = [@ EXCEPT !.pc = "open", !.fd = ino, !.off = 0]]
        /\ UNCHANGED <<loaders, crashed>>

\* json.dump, f.flush(), os.fsync(), close: the text goes to the open file
\* chunk by chunk, at the offset of this thread's file object
SaveWrite(w) ==
    LET sv == savers[w]
        chunk == Record(VersionOf(w, sv.n + 1))[sv.off + 1]
        last == sv.off + 1 = RecordChunks
        after == [savers EXCEPT ![w] = [sv EXCEPT !.pc = IF last THEN "written" ELSE "open",
                                                  !.off = sv.off + 1]]
    IN  /\ ~crashed
        /\ sv.pc = "open"
        /\ savers' = after
        /\ disk' = Reclaim([disk EXCEPT !.inodes[sv.fd] = WriteAt(@, sv.off, chunk)], after)
        /\ UNCHANGED <<loaders, crashed>>

\* os.replace(tmp_path, path): FileNotFoundError when meta.json.tmp is gone
SaveReplace(w) ==
    /\ ~crashed
    /\ savers[w].pc = "written"
    /\ IF disk.tmp = 0
       THEN /\ savers' = [savers EXCEPT ![w].pc = "failed"]
            /\ UNCHANGED disk
       ELSE LET after == [savers EXCEPT ![w] = [@ EXCEPT !.pc = "idle", !.fd = 0,
                                                          !.n = @ + 1]]
            IN  /\ savers' = after
                /\ disk' = Reclaim([disk EXCEPT !.meta = disk.tmp, !.tmp = 0], after)
    /\ UNCHANGED <<loaders, crashed>>

\* json.load accepts a text whose parts are those of a record, in order
WellFormed(content) ==
    /\ Len(content) = RecordChunks
    /\ \A i \in 1..RecordChunks : content[i].part = i

\* The text is the text of one record
Complete(content) == \E v \in 0..VersionOf(MaxSavers, MaxSaves) : content = Record(v)

\* _load_batch_meta: os.path.exists(path)
LoadBegin(l) ==
    /\ ~crashed
    /\ loaders[l].pc = "idle"
    /\ loaders' = [loaders EXCEPT ![l].pc = "try"]
    /\ UNCHANGED <<disk, savers, crashed>>

\* _load_batch_meta: one turn of the loop. A text put together from two
\* records of different lengths may or may not be valid JSON.
LoadTry(l) ==
    /\ ~crashed
    /\ loaders[l].pc = "try"
    /\ \E parsed \in IF Complete(MetaContent) THEN {TRUE}
                     ELSE IF WellFormed(MetaContent) THEN BOOLEAN ELSE {FALSE} :
           loaders' = [loaders EXCEPT ![l] =
               IF parsed THEN [@ EXCEPT !.pc = "done", !.got = MetaContent]
               ELSE IF @.tries + 1 = LoadTries THEN [@ EXCEPT !.pc = "503", !.tries = LoadTries]
               ELSE [@ EXCEPT !.tries = @ + 1]]
    /\ UNCHANGED <<disk, savers, crashed>>

\* The process dies: every thread stops where it is, the files stay
Crash ==
    /\ ~crashed
    /\ crashed' = TRUE
    /\ UNCHANGED <<disk, savers, loaders>>

InitSave ==
    /\ meta = None
    /\ results = {}
    /\ allZipFile = None
    /\ workers = [w \in 1..MaxWorkers |-> NoWorker]
    /\ reqs = [k \in 1..MaxReq |-> NoReq]
    /\ admit = NoAdmission
    /\ job = None /\ jreq = None /\ normCall = None
    /\ disk = [inodes |-> [i \in Inodes |-> IF i = 1 THEN Record(0) ELSE <<>>],
               meta |-> 1, tmp |-> 0]
    /\ savers = [w \in Sids |-> NoSaver]
    /\ loaders = [l \in Lids |-> NoLoader]
    /\ crashed = FALSE
    /\ classifyCall = None /\ extraction = None /\ jobRoot = None /\ pool = None

otherVars == <<meta, results, allZipFile, workers, reqs, admit, job, jreq, normCall,
               classifyCall, extraction, jobRoot, pool>>

SaverOpen == (\E w \in Sids : SaveOpen(w)) /\ UNCHANGED otherVars

SaverWrite == (\E w \in Sids : SaveWrite(w)) /\ UNCHANGED otherVars

SaverReplace == (\E w \in Sids : SaveReplace(w)) /\ UNCHANGED otherVars

LoaderBegin == (\E l \in Lids : LoadBegin(l)) /\ UNCHANGED otherVars

LoaderTry == (\E l \in Lids : LoadTry(l)) /\ UNCHANGED otherVars

ProcessCrash == Crash /\ UNCHANGED otherVars

NextSave ==
    \/ SaverOpen
    \/ SaverWrite
    \/ SaverReplace
    \/ LoaderBegin
    \/ LoaderTry
    \/ ProcessCrash

SpecSave == InitSave /\ [][NextSave]_vars

\* ------------------------------------------------------ classifier calls
\* SpecRules: _classify_text called once on a text holding any of RulePhrases,
\* with RuleCount dates and times or none.
RulePhrases ==
    {"ORDEN MEDICA", "DECISION", "MES", "HISTORIA CLINICA", "TRABAJO SOCIAL",
     "REGISTRO DE ACTIVIDADES DE CUIDADOR", "AUTORIZACION SERVICIOS",
     "REGISTRO DE ATENCION DOMICILIARIA", "CERTIFICACION DETALLE DE CARGOS",
     "CERTIFICACION PRESTACION DE SERVICIOS POR CONCEPTO", "DETALLE DE CARGOS",
     "FACTURA ELECTRONICA DE VENTA"}

RuleCount == 2

RuleTexts ==
    {BlankText} \cup {Text(phrases, n, n) : phrases \in SUBSET RulePhrases,
                                            n \in {0, RuleCount}}

NoCall == [text |-> BlankText, allow_crc_table |-> FALSE, state |-> "none",
           result |-> NoCategory]

ClassifyCall ==
    /\ classifyCall.state = "called"
    /\ classifyCall' = [classifyCall EXCEPT
           !.state = "returned",
           !.result = ClassifyText(classifyCall.text, classifyCall.allow_crc_table)]
    /\ UNCHANGED <<meta, results, allZipFile, workers, reqs, admit, job, jreq, normCall,
                   disk, savers, loaders, crashed, extraction, jobRoot, pool>>

InitRules ==
    /\ meta = None
    /\ results = {}
    /\ allZipFile = None
    /\ workers = [w \in 1..MaxWorkers |-> NoWorker]
    /\ reqs = [k \in 1..MaxReq |-> NoReq]
    /\ admit = NoAdmission
    /\ job = None /\ jreq = None /\ normCall = None
    /\ disk = None /\ savers = None /\ loaders = None /\ crashed = FALSE
    /\ extraction = None /\ jobRoot = None /\ pool = None
    /\ \E t \in RuleTexts : \E allow \in BOOLEAN :
           classifyCall = [NoCall EXCEPT !.text = t, !.allow_crc_table = allow,
                                         !.state = "called"]

NextRules == ClassifyCall

SpecRules == InitRules /\ [][NextRules]_vars

\* ------------------------------------------------------- text extraction
\* SpecExtract: the page loop of _auto_classify_internal_with_cancel over a
\* fresh job of one source PDF with up to ExtractPages pages, OCR enabled,
\* while the batch may be cancelled at any moment.
ExtractPages == 2

\* A page: its embedded text, whether that text has OCR_MIN_TEXT_LEN
\* characters or more once stripped, and what tesseract reads in the top of
\* the page and in the whole page
ExtractEmbedded ==
    {BlankText, Text({}, 0, 0), Text({"FACTURA ELECTRONICA DE VENTA"}, 0, 0), TableHeaderText}

ExtractHeader == {Text({}, 0, 0), Text({"AUTORIZACION SERVICIOS"}, 0, 0), TableHeaderText}

ExtractFull == {Text({}, 0, 0), Text({"REGISTRO DE ATENCION DOMICILIARIA"}, 0, 0)}

ExtractPageContents ==
    {[embedded |-> e, long |-> l, header |-> h, full |-> f] :
        e \in ExtractEmbedded, l \in BOOLEAN, h \in ExtractHeader, f \in ExtractFull}

\* _text_is_useful
TextIsUseful(page) == ~page.embedded.blank /\ page.long

\* cancel_check and cancel_check(): the batch meta is read again
CancelCheckNever(e) == FALSE

CancelCheck(e) == e.cancelRequested

\* raise RuntimeError("batch_cancelled")
Cancelled(e) == [e EXCEPT !.pc = "cancelled"]

\* return text, from the tier named: the loop goes on to the next page, and
\* to the passes over the texts after the last one
PageText(e, text, tier) ==
    [e EXCEPT !.texts = Append(@, text), !.tiers = Append(@, tier),
              !.i = @ + 1,
              !.pc = IF e.i + 1 = Len(e.pages) THEN "classify" ELSE "embedded"]

\* _ocr_page_text: tesseract runs on the page, or on its top
OcrRun(e, kind) == [e EXCEPT !.ocr = @ \cup {<<e.i, kind>>}]

\* _page_text_for_classification, tier 1: the embedded text
ExtractEmbeddedTier ==
    LET e == extraction
        page == e.pages[e.i + 1]
    IN  /\ e.pc = "embedded"
        /\ extraction' =
               IF CancelCheck(e) THEN Cancelled(e)
               ELSE IF TextIsUseful(page)
               THEN IF ClassifyText(page.embedded, TRUE) # NoCategory
                    THEN PageText(e, page.embedded, "embedded")
                    ELSE [e EXCEPT !.pc = "header_useful"]
               ELSE [e EXCEPT !.pc = "header"]

\* _page_text_for_classification, tier 2: header OCR, after a useful
\* embedded text that no rule matched or after one that was not useful
ExtractHeaderTier ==
    LET e == extraction
        page == e.pages[e.i + 1]
    IN  /\ e.pc \in {"header_useful", "header"}
        /\ extraction' =
               IF CancelCheck(e) THEN Cancelled(e)
               ELSE IF ClassifyText(page.header, FALSE) # NoCategory
               THEN PageText(OcrRun(e, "head"), page.header, "header")
               ELSE IF e.pc = "header_useful"
               THEN PageText(OcrRun(e, "head"), page.embedded, "embedded")
               ELSE [OcrRun(e, "head") EXCEPT !.pc = "full"]

\* _page_text_for_classification, tier 3: full-page OCR
ExtractFullTier ==
    LET e == extraction
        page == e.pages[e.i + 1]
    IN  /\ e.pc = "full"
        /\ extraction' =
               IF CancelCheck(e) THEN Cancelled(e)
               ELSE PageText(OcrRun(e, "full"), page.full, "full")

\* _auto_classify_internal_with_cancel after the page loop: the passes over
\* the texts, and the map is returned
ExtractClassify ==
    /\ extraction.pc = "classify"
    /\ extraction' = [extraction EXCEPT
           !.pc = "returned",
           !.classifications = AutoClassifyInternal(extraction.texts, extraction.page_map)]

\* POST /batch/{id}/cancel lands while the package is being classified
CancelArrives ==
    /\ extraction.pc \notin {"returned", "cancelled"}
    /\ ~extraction.cancelRequested
    /\ extraction' = [extraction EXCEPT !.cancelRequested = TRUE]

InitExtract ==
    /\ meta = None
    /\ results = {}
    /\ allZipFile = None
    /\ workers = [w \in 1..MaxWorkers |-> NoWorker]
    /\ reqs = [k \in 1..MaxReq |-> NoReq]
    /\ admit = NoAdmission
    /\ job = None /\ jreq = None /\ normCall = None
    /\ disk = None /\ savers = None /\ loaders = None /\ crashed = FALSE
    /\ classifyCall = None /\ jobRoot = None /\ pool = None
    /\ \E n \in 1..ExtractPages : \E pages \in [1..n -> ExtractPageContents] :
           extraction = [pages |-> pages, page_map |-> PagesOf(0, n), i |-> 0,
                         pc |-> "embedded", cancelRequested |-> FALSE, ocr |-> {},
                         texts |-> <<>>, tiers |-> <<>>, classifications |-> <<>>]

extractFrame == <<meta, results, allZipFile, workers, reqs, admit, job, jreq, normCall,
                  disk, savers, loaders, crashed, classifyCall, jobRoot, pool>>

PageEmbedded == ExtractEmbeddedTier /\ UNCHANGED extractFrame

PageHeaderOcr == ExtractHeaderTier /\ UNCHANGED extractFrame

PageFullOcr == ExtractFullTier /\ UNCHANGED extractFrame

TextsClassify == ExtractClassify /\ UNCHANGED extractFrame

BatchCancel == CancelArrives /\ UNCHANGED extractFrame

NextExtract ==
    \/ PageEmbedded
    \/ PageHeaderOcr
    \/ PageFullOcr
    \/ TextsClassify
    \/ BatchCancel

SpecExtract == InitExtract /\ [][NextExtract]_vars

\* ---------------------------------------------------------------- sweep
\* SpecSweep: the directories under JOB_ROOT while jobs are admitted and
\* time passes, from time 1 to MaxTime; a job lives JOB_TTL_SECONDS.
MaxTime == 5
JOB_TTL_SECONDS == 2

\* {32} in _JOB_ID_RE
JobIdLen == 32

HexChars ==
    {"0", "1", "2", "3", "4", "5", "6", "7", "8", "9", "a", "b", "c", "d", "e", "f",
     "A", "B", "C", "D", "E", "F"}

JobIdReAny(name) == TRUE

\* _JOB_ID_RE.fullmatch(name): ^[a-f0-9]{32}$ with re.IGNORECASE
JobIdRe(name) == Len(name) = JobIdLen /\ \A i \in 1..Len(name) : name[i] \in HexChars

Repeated(c, n) == [i \in 1..n |-> c]

\* uuid.uuid4().hex
JobNames == {Repeated("a", JobIdLen), Repeated("0", JobIdLen)}

\* Names that are no job identifiers: the batches tree, a name one character
\* short, a name with a letter past f; and a name in capitals, which is one
StrayNames ==
    {<<"b", "a", "t", "c", "h", "e", "s">>, Repeated("a", JobIdLen - 1),
     Repeated("g", JobIdLen), Repeated("F", JobIdLen)}

DirNames == JobNames \cup StrayNames

NoDir == [exists |-> FALSE, hasMeta |-> FALSE, createdAt |-> 0]

\* _cleanup_expired_jobs at time now: the directories it leaves
CleanupExpiredJobs(dirs, now) ==
    [name \in DOMAIN dirs |->
        IF /\ dirs[name].exists
           /\ JobIdRe(name)
           /\ dirs[name].hasMeta
           /\ dirs[name].createdAt # 0
           /\ now - dirs[name].createdAt > JOB_TTL_SECONDS
        THEN NoDir
        ELSE dirs[name]]

\* create_job up to os.makedirs: the sweep, then the directory of the new job
CreateJobDir(name) ==
    /\ ~jobRoot.dirs[name].exists
    /\ jobRoot' = [jobRoot EXCEPT
           !.dirs = [CleanupExpiredJobs(jobRoot.dirs, jobRoot.now) EXCEPT
                         ![name] = [NoDir EXCEPT !.exists = TRUE]]]

\* create_job at its end: _save_meta with createdAt = time.time()
SaveJobMeta(name) ==
    /\ jobRoot.dirs[name].exists /\ ~jobRoot.dirs[name].hasMeta
    /\ jobRoot' = [jobRoot EXCEPT !.dirs[name].hasMeta = TRUE,
                                  !.dirs[name].createdAt = jobRoot.now]

\* A second passes
Tick ==
    /\ jobRoot.now < MaxTime
    /\ jobRoot' = [jobRoot EXCEPT !.now = @ + 1]

InitSweep ==
    /\ meta = None
    /\ results = {}
    /\ allZipFile = None
    /\ workers = [w \in 1..MaxWorkers |-> NoWorker]
    /\ reqs = [k \in 1..MaxReq |-> NoReq]
    /\ admit = NoAdmission
    /\ job = None /\ jreq = None /\ normCall = None
    /\ disk = None /\ savers = None /\ loaders = None /\ crashed = FALSE
    /\ classifyCall = None /\ extraction = None /\ pool = None
    /\ \E strays \in SUBSET StrayNames :
           jobRoot = [now |-> 1,
                      dirs |-> [name \in DirNames |->
                                   IF name = <<"b", "a", "t", "c", "h", "e", "s">>
                                   THEN [NoDir EXCEPT !.exists = TRUE]
                                   ELSE IF name \in strays
                                   THEN [exists |-> TRUE, hasMeta |-> TRUE, createdAt |-> 1]
                                   ELSE NoDir]]

sweepFrame == <<meta, results, allZipFile, workers, reqs, admit, job, jreq, normCall,
                disk, savers, loaders, crashed, classifyCall, extraction, pool>>

JobCreated == (\E name \in JobNames : CreateJobDir(name)) /\ UNCHANGED sweepFrame

JobMetaSaved == (\E name \in JobNames : SaveJobMeta(name)) /\ UNCHANGED sweepFrame

TimePasses == Tick /\ UNCHANGED sweepFrame

NextSweep ==
    \/ JobCreated
    \/ JobMetaSaved
    \/ TimePasses

SpecSweep == InitSweep /\ [][NextSweep]_vars

\* ------------------------------------------------------------ thread pool
\* SpecPool: _auto_classify_internal on a job of up to PoolPages pages with
\* a pool of up to MaxPool threads, and _auto_classify_internal_with_cancel
\* on the same job with a cancel predicate that never fires, one call after
\* the other in either order, so that each is seen on an empty and on a
\* filled cache. A string is kept with what _text_is_useful says of it.
PoolPages == 2
MaxPool == 2

PoolPageContents ==
    {[embedded |-> e, long |-> TRUE, header |-> h, full |-> f] :
        e \in {BlankText, Text({}, 0, 0), Text({"FACTURA ELECTRONICA DE VENTA"}, 0, 0)},
        h \in {Text({}, 0, 0), Text({"AUTORIZACION SERVICIOS"}, 0, 0)},
        f \in {Text({}, 0, 0), Text({"REGISTRO DE ATENCION DOMICILIARIA"}, 0, 0)}}

CacheKeyShared(kind, i) == <<kind, 0>>

\* cache/text_<i>.txt, cache/ocr_<i>_head.txt, cache/ocr_<i>.txt
CacheKey(kind, i) == <<kind, i>>

\* The file is read when it is there; otherwise the string is made from the
\* page and the file written
CacheText(cache, key, fresh) ==
    IF \E c \in cache : c.key = key
    THEN (CHOOSE c \in cache : c.key = key).string
    ELSE fresh

CachePut(cache, key, fresh) ==
    IF \E c \in cache : c.key = key THEN cache
    ELSE cache \cup {[key |-> key, string |-> fresh]}

NoTask == [pc |-> "queued", text |-> BlankText]

\* One tier of _page_text_for_classification for page index i, without
\* cancel_check or with one that answers false: the task and the cache after
TaskStep(page, task, i, cache) ==
    LET kind == CASE task.pc = "embedded" -> "text"
                  [] task.pc = "full" -> "full"
                  [] OTHER -> "head"
        fresh == CASE task.pc = "embedded" -> [text |-> page.embedded, long |-> page.long]
                   [] task.pc = "full" -> [text |-> page.full, long |-> FALSE]
                   [] OTHER -> [text |-> page.header, long |-> FALSE]
        read == CacheText(cache, CacheKey(kind, i), fresh)
        finished(text) == [pc |-> "done", text |-> text]
    IN  [cache |-> CachePut(cache, CacheKey(kind, i), fresh),
         task |->
            CASE task.pc = "embedded" ->
                     IF ~read.text.blank /\ read.long
                     THEN IF ClassifyText(read.text, TRUE) # NoCategory
                          THEN finished(read.text)
                          ELSE [pc |-> "header_useful", text |-> read.text]
                     ELSE [pc |-> "header", text |-> read.text]
              [] task.pc = "full" -> finished(read.text)
              [] OTHER ->
                     IF ClassifyText(read.text, FALSE) # NoCategory
                     THEN finished(read.text)
                     ELSE IF task.pc = "header_useful" THEN finished(task.text)
                     ELSE [pc |-> "full", text |-> task.text]]

Busy(tasks) == {g \in DOMAIN tasks : tasks[g].pc \notin {"queued", "done"}}

\* ThreadPoolExecutor(max_workers=OCR_WORKERS): a free thread takes the next
\* page of executor.map; with one thread this is the plain loop
PoolTake(g) ==
    /\ pool.first = "job" \/ pool.run.pc = "returned"
    /\ pool.tasks[g].pc = "queued"
    /\ \A h \in 1..(g - 1) : pool.tasks[h].pc # "queued"
    /\ Cardinality(Busy(pool.tasks)) < pool.size
    /\ pool' = [pool EXCEPT !.tasks[g].pc = "embedded"]

\* _ocr_for_index(idx): one tier of the page a thread is at
PoolStep(g) ==
    LET out == TaskStep(pool.pages[g], pool.tasks[g], g - 1, pool.cache)
    IN  /\ g \in Busy(pool.tasks)
        /\ pool' = [pool EXCEPT !.tasks[g] = out.task, !.cache = out.cache]

\* _auto_classify_internal once every text is there: the passes, the map
PoolReturn ==
    /\ pool.pc = "running"
    /\ \A g \in DOMAIN pool.tasks : pool.tasks[g].pc = "done"
    /\ pool' = [pool EXCEPT
           !.pc = "returned",
           !.classifications =
               AutoClassifyInternal([g \in DOMAIN pool.tasks |-> pool.tasks[g].text],
                                    pool.page_map)]

\* _auto_classify_internal_with_cancel: one tier of the page the loop is at
LoopStep ==
    LET run == pool.run
        out == TaskStep(pool.pages[run.i + 1], run.task, run.i, pool.cache)
    IN  /\ pool.first = "batch" \/ pool.pc = "returned"
        /\ run.pc = "running" /\ run.i < Len(pool.pages)
        /\ pool' = [pool EXCEPT
               !.cache = out.cache,
               !.run = IF out.task.pc = "done"
                       THEN [run EXCEPT !.i = @ + 1, !.texts = Append(@, out.task.text),
                                        !.task = [NoTask EXCEPT !.pc = "embedded"]]
                       ELSE [run EXCEPT !.task = out.task]]

\* _auto_classify_internal_with_cancel after the page loop
LoopReturn ==
    /\ pool.run.pc = "running" /\ pool.run.i = Len(pool.pages)
    /\ pool' = [pool EXCEPT
           !.run.pc = "returned",
           !.run.classifications = AutoClassifyInternal(pool.run.texts, pool.page_map)]

InitPool ==
    /\ meta = None
    /\ results = {}
    /\ allZipFile = None
    /\ workers = [w \in 1..MaxWorkers |-> NoWorker]
    /\ reqs = [k \in 1..MaxReq |-> NoReq]
    /\ admit = NoAdmission
    /\ job = None /\ jreq = None /\ normCall = None
    /\ disk = None /\ savers = None /\ loaders = None /\ crashed = FALSE
    /\ classifyCall = None /\ extraction = None /\ jobRoot = None
    /\ \E n \in 1..PoolPages : \E pages \in [1..n -> PoolPageContents] :
       \E size \in 1..MaxPool : \E first \in {"job", "batch"} :
           pool = [pages |-> pages, page_map |-> PagesOf(0, n), size |-> size,
                   first |-> first,
                   tasks |-> [g \in 1..n |-> NoTask], cache |-> {},
                   pc |-> "running", classifications |-> <<>>,
                   run |-> [pc |-> "running", i |-> 0,
                            task |-> [NoTask EXCEPT !.pc = "embedded"],
                            texts |-> <<>>, classifications |-> <<>>]]

poolFrame == <<meta, results, allZipFile, workers, reqs, admit, job, jreq, normCall,
               disk, savers, loaders, crashed, classifyCall, extraction, jobRoot>>

PoolTaskTaken == (\E g \in DOMAIN pool.tasks : PoolTake(g)) /\ UNCHANGED poolFrame

PoolTaskStep == (\E g \in DOMAIN pool.tasks : PoolStep(g)) /\ UNCHANGED poolFrame

PoolMapReturned == PoolReturn /\ UNCHANGED poolFrame

LoopTierStep == LoopStep /\ UNCHANGED poolFrame

LoopMapReturned == LoopReturn /\ UNCHANGED poolFrame

NextPool ==
    \/ PoolTaskTaken
    \/ PoolTaskStep
    \/ PoolMapReturned
    \/ LoopTierStep
    \/ LoopMapReturned

SpecPool == InitPool /\ [][NextPool]_vars

\* ------------------------------------------------------------------ claims
Quiescent ==
    /\ RunningWorkers = {}
    /\ \A k \in Rids : reqs[k].pc \in {"idle", "done"}

FinishedWorkers == {w \in Tids : workers[w].pc = "finished"}

OpenAt(statuses) == {j \in DOMAIN statuses : statuses[j] \in {"pending", "processing"}}

ZipEntry(pkg) == [file |-> pkg.resultFile, arcname |-> pkg.downloadName]

\* C1: a batch of 3 packages is started and cancelled after the first
\* package became done and before the worker has finished (here: while
\* package 2 is pending or in flight and package 3 is pending; these being
\* the only two requests); when the worker run has ended the stored status
\* is cancelled, package 1 is done, packages 2 and 3 are cancelled and
\* all.zip holds exactly the result of package 1.
C1_BatchCancelScenario ==
    (/\ Len(meta.packages) = 3
     /\ reqs[1] = Answered("start", <<"processing">>)
     /\ reqs[2].op = "cancel" /\ reqs[2].pc = "done"
     /\ reqs[2].alive = {1}
     /\ reqs[2].seen[1] = "done" /\ reqs[2].seen = reqs[2].stored
     /\ reqs[2].stored[2] \in {"pending", "processing"}
     /\ reqs[2].stored[3] = "pending"
     /\ \A k \in Rids \ {1, 2} : reqs[k].pc = "idle"
     /\ FinishedWorkers = {1} /\ RunningWorkers = {})
    => /\ meta.status = "cancelled"
       /\ Statuses(meta) = <<"done", "cancelled", "cancelled">>
       /\ allZipFile = <<<<ZipEntry(meta.packages[1])>>>>

\* C2: a cancel answered `cancelling` while a worker was running with a
\* package still pending is never lost: once every thread has ended (the
\* start of that worker and the cancel being the only writing requests), the
\* stored status is cancelled and every package that was pending or in
\* flight at the cancel is cancelled.
C2_CancelNeverLost ==
    \A k \in Rids :
        (/\ reqs[k].op = "cancel" /\ reqs[k].pc = "done"
         /\ reqs[k].resp = <<"cancelling">>
         /\ reqs[k].alive # {}
         /\ reqs[k].seen = reqs[k].stored
         /\ \E j \in DOMAIN reqs[k].stored : reqs[k].stored[j] = "pending"
         /\ Cardinality({j \in Rids : reqs[j].op \in {"start", "retry", "cancel"}}) = 2
         /\ Quiescent)
        => /\ meta.status = "cancelled"
           /\ \A j \in OpenAt(reqs[k].stored) : meta.packages[j].status = "cancelled"

\* C3: at any time at most one worker thread is running for the batch.
C3_AtMostOneWorker == Cardinality(RunningWorkers) <= 1

\* C4: every change of the stored batch status follows an edge of the
\* specified state machine.
StatusEdges ==
    {<<"ready", "processing">>, <<"processing", "done">>, <<"processing", "partial">>,
     <<"processing", "error">>, <<"processing", "cancelling">>,
     <<"cancelling", "cancelled">>, <<"ready", "cancelled">>, <<"done", "processing">>}

C4_StatusMachine ==
    [][meta'.status # meta.status => <<meta.status, meta'.status>> \in StatusEdges]_vars

\* C5: POST start on a batch stored as processing or done starts no worker,
\* writes nothing (meta, result files and all.zip unchanged) and answers the
\* stored status; the request is over with that answer.
C5_StartIdempotent ==
    [][\A k \in Rids :
          (/\ reqs[k].pc = "idle" /\ reqs'[k].op = "start"
           /\ meta.status \in {"processing", "done"})
          => /\ meta' = meta
             /\ workers' = workers
             /\ results' = results /\ allZipFile' = allZipFile
             /\ reqs'[k] = Answered("start", <<meta.status>>)]_vars

C5_Witness ==
    \E k \in Rids :
        /\ reqs[k] = Answered("start", <<"done">>)
        /\ meta.status = "done"
        /\ RunningWorkers = {}

\* C6: POST cancel stored on a batch that has not been started (stored
\* status ready) writes status cancelled with cancelRequested false in one
\* step (no cancelling in between), starts no worker, leaves every package
\* record unchanged and answers cancelled.
C6_CancelBeforeStart ==
    [][\A k \in Rids :
          (/\ reqs[k].op = "cancel" /\ reqs[k].pc = "loaded" /\ reqs'[k].pc = "done"
           /\ meta.status = "ready")
          => /\ meta'.status = "cancelled"
             /\ meta'.cancelRequested = FALSE
             /\ meta'.packages = meta.packages
             /\ meta'.allZip = meta.allZip
             /\ workers' = workers
             /\ reqs'[k].resp = <<"cancelled">>]_vars

C6_Witness ==
    \E k \in Rids :
        /\ reqs[k].op = "cancel" /\ reqs[k].pc = "done"
        /\ reqs[k].resp = <<"cancelled">>
        /\ meta.status = "cancelled" /\ ~meta.cancelRequested
        /\ \A w \in Tids : workers[w].pc = "idle"
        /\ \A j \in DOMAIN meta.packages : meta.packages[j].status = "pending"

\* The failures the service raises itself, each with a fixed message
NamedFailures == {"NoPdfs", "CorruptPdf", "OcrDisabled", "FevRequired", "Unresolved"}

LaterTargets(w) ==
    {j \in (workers[w].i + 1)..Len(workers[w].meta.packages) :
        IsTarget(workers[w].target, j)}

\* C7 (as stated): a failure while one package is processed (any of the
\* named failures or an unexpected exception) records status error with a
\* non-empty message on that package, changes no other package record of the
\* run and does not stop the run: after the failed package is saved the run
\* goes on with the next package of its target set, so that a finished run
\* has processed every target package after a failed one.
C7_ErrorDoesNotHalt ==
    [][\A w \in Tids :
          LET i == workers[w].i
              before == workers[w].meta.packages
              after == workers'[w].meta.packages
          IN  /\ (/\ workers[w].pc \in {"start", "classify"}
                  /\ workers'[w].pc = "save"
                  /\ after[i].status = "error")
                 => /\ after[i].error \notin {None, <<"">>}
                    /\ \A j \in DOMAIN before \ {i} : after[j] = before[j]
                    /\ workers'[w].cancelled = workers[w].cancelled
              /\ (/\ workers[w].pc = "save" /\ workers'[w].pc # "save"
                  /\ before[i].status = "error")
                 => /\ meta'.packages[i] = before[i]
                    /\ IF LaterTargets(w) = {}
                       THEN workers'[w].pc = "zip"
                       ELSE /\ workers'[w].pc = "start"
                            /\ workers'[w].i \in LaterTargets(w)
                            /\ \A j \in LaterTargets(w) : workers'[w].i <= j
              /\ workers'[w].pc = "finished"
                 => \A e \in workers'[w].tried :
                        after[e].status = "error"
                        => \A j \in (e + 1)..Len(after) :
                               IsTarget(workers'[w].target, j) => j \in workers'[w].tried]_vars

\* C7 (amended): as C7, but the message recorded is the text of the failure:
\* never None, non-empty for each named failure, and str(e) for an unexpected
\* exception, which is empty when the exception carries no text.
C7_ErrorRecordedRunGoesOn ==
    [][\A w \in Tids :
          LET i == workers[w].i
              before == workers[w].meta.packages
              after == workers'[w].meta.packages
          IN  /\ (/\ workers[w].pc \in {"start", "classify"}
                  /\ workers'[w].pc = "save"
                  /\ after[i].status = "error")
                 => /\ after[i].error # None
                    /\ workers'[w].raised \in NamedFailures \cup {"Unexpected"}
                       => after[i].error # <<"">>
                    /\ \A j \in DOMAIN before \ {i} : after[j] = before[j]
                    /\ workers'[w].cancelled = workers[w].cancelled
              /\ (/\ workers[w].pc = "save" /\ workers'[w].pc # "save"
                  /\ before[i].status = "error")
                 => /\ meta'.packages[i] = before[i]
                    /\ IF LaterTargets(w) = {}
                       THEN workers'[w].pc = "zip"
                       ELSE /\ workers'[w].pc = "start"
                            /\ workers'[w].i \in LaterTargets(w)
                            /\ \A j \in LaterTargets(w) : workers'[w].i <= j
              /\ workers'[w].pc = "finished"
                 => \A e \in workers'[w].tried :
                        after[e].status = "error"
                        => \A j \in (e + 1)..Len(after) :
                               IsTarget(workers'[w].target, j) => j \in workers'[w].tried]_vars

C7_Witness ==
    \E w \in Tids :
        /\ workers[w].pc = "finished"
        /\ workers[w].tried = {1, 2, 3}
        /\ Statuses(meta) = <<"error", "done", "error">>
        /\ meta.packages[1].error \notin {None, <<"">>}
        /\ meta.packages[3].error = <<"">>
        /\ meta.status = "partial"

\* C8: a worker started by retry-errors touches only the packages that were
\* in error when the request was handled: no step of that worker sets to
\* processing the stored status of a package that was done, cancelled or
\* pending then, or changes its stored jobId, resultFile or downloadName; and
\* a retry-errors request that finds no package in error starts no worker
\* and writes nothing.
C8_RetryOnlyErrors ==
    [][/\ \A w \in Tids :
            (/\ workers[w].pc \notin {"idle", "finished"}
             /\ workers[w].target # {}
             /\ workers'[w] # workers[w])
            => \A j \in {x \in DOMAIN meta.packages :
                              workers[w].seen[x] \in {"done", "cancelled", "pending"}} :
                   /\ (meta'.packages[j].status = "processing"
                       => meta.packages[j].status = "processing")
                   /\ meta'.packages[j].jobId = meta.packages[j].jobId
                   /\ meta'.packages[j].resultFile = meta.packages[j].resultFile
                   /\ meta'.packages[j].downloadName = meta.packages[j].downloadName
       /\ \A k \in Rids :
            (reqs[k].pc = "idle" /\ reqs'[k].op = "retry" /\ ErrorPackages(meta) = {})
            => meta' = meta /\ workers' = workers]_vars

\* C9: whenever a worker run completes, all.zip holds exactly one entry for
\* each package stored as done, named by the package's downloadName, and no
\* other entry.
ZipMatches(m, zip) ==
    /\ zip # None
    /\ LET entries == zip[1]
           done == {j \in DOMAIN m.packages : m.packages[j].status = "done"}
       IN  /\ Len(entries) = Cardinality(done)
           /\ \A j \in done :
                  \E x \in 1..Len(entries) : entries[x] = ZipEntry(m.packages[j])

C9_AllZipExact ==
    [][\A w \in Tids :
          (workers[w].pc = "final" /\ workers'[w].pc = "finished")
          => ZipMatches(meta', allZipFile')]_vars

\* C10: admission of a valid archive succeeds on both paths (direct upload
\* and object-store reference): the reply carries the package count and the
\* stored meta is ready with one pending package per package folder; more
\* than MAX_BATCH_PACKAGES folders are refused 413 and none 400.
ValidRequest ==
    /\ admit.archive.wellFormed /\ ~admit.archive.tooBig /\ ~Unsafe(admit.archive)
    /\ admit.path = "upload" => admit.archive.zipNamed
    /\ admit.path = "gcs" => admit.gcs = "ok"

C10_AdmissionSucceeds ==
    (admit.pc = "done" /\ admit.path \in {"upload", "gcs"} /\ ValidRequest)
    => LET n == Cardinality(PackageFolders(admit.archive))
       IN  IF n = 0 THEN admit.resp = Reply(400, 0)
           ELSE IF n > MAX_BATCH_PACKAGES THEN admit.resp = Reply(413, 0)
           ELSE /\ admit.resp = Reply(200, n)
                /\ meta.status = "ready" /\ ~meta.cancelRequested
                /\ Len(meta.packages) = n
                /\ \A j \in 1..n : /\ meta.packages[j].status = "pending"
                                   /\ meta.packages[j].name \in PackageFolders(admit.archive)
                /\ \A f \in PackageFolders(admit.archive) :
                       Cardinality({j \in 1..n : meta.packages[j].name = f}) = 1

CreateAnswered == jreq # None /\ jreq.op = "create" /\ jreq.pc = "done"

RECURSIVE SumPages(_)
SumPages(pdfs) ==
    IF pdfs = <<>> THEN 0 ELSE pdfs[Len(pdfs)].pages + SumPages(SubSeq(pdfs, 1, Len(pdfs) - 1))

\* The page index of directory d is the one the source PDFs of d call for
PageIndexExact(d) ==
    LET m == d.meta.page_map
        F == Len(d.pdfs)
    IN  /\ d.meta.files = F
        /\ Len(m) = d.meta.totalPages
        /\ d.meta.totalPages = SumPages(d.pdfs)
        /\ \A g \in 1..Len(m) :
               /\ m[g][1] \in 0..(F - 1)
               /\ m[g][2] \in 0..(d.pdfs[m[g][1] + 1].pages - 1)
        /\ \A i \in 0..(F - 1) : \A q \in 0..(d.pdfs[i + 1].pages - 1) :
               Cardinality({g \in 1..Len(m) : m[g] = <<i, q>>}) = 1
        /\ \A g \in 1..Len(m) : \A h \in (g + 1)..Len(m) :
               \/ m[g][1] < m[h][1]
               \/ m[g][1] = m[h][1] /\ m[g][2] < m[h][2]

C12_AdmissionAllOrNothing ==
    (CreateAnswered /\ jreq.resp.kind # "ok") => job = None

C12_Witness ==
    /\ CreateAnswered /\ jreq.path = "package"
    /\ jreq.resp = JobError(400, "CorruptPdf")
    /\ Len(jreq.files) = 3
    /\ jreq.files[1].kind = "pdf" /\ jreq.files[2].kind = "pdf"
    /\ jreq.files[3].kind = "corrupt"
    /\ job = None

\* A completed auto-classify that answered with a map
ClassifyAnswered ==
    /\ jreq # None /\ jreq.op = "classify" /\ jreq.pc = "done"
    /\ jreq.resp.kind = "ok"

\* The decimal key of page index i, for i below ten
PageKey(i) == <<48 + i>>

\* No rule of the classifier fires on the text, with or without the CRC table
NoRuleFires(t) == \A allow \in BOOLEAN : ClassifyText(t, allow) = NoCategory

\* The strong hits of the PDF of global page g are one category of FEV, CRC, PDE
PropagationApplies(g) ==
    LET hits == StrongHits(jreq.strong, PerPdf(jreq.page_map, jreq.page_map[g][1]))
    IN  Cardinality(hits) = 1 /\ hits \subseteq {"FEV", "CRC", "PDE"}

\* C13: a completed auto-classify of a job with totalPages = N returns a map
\* whose keys are exactly "0" .. "N-1", each once, whose values are all among
\* CRC, FEV, HEV, OPF, PDE, and where a page on which no rule fires and to
\* which no propagation applies has HEV.
C13_AutoClassifyTotal ==
    ClassifyAnswered =>
        LET r == jreq.resp.classifications
            N == job.meta.totalPages
        IN  /\ Len(r) = N
            /\ {r[g][1] : g \in 1..Len(r)} = {PageKey(i) : i \in 0..(N - 1)}
            /\ Cardinality({r[g][1] : g \in 1..Len(r)}) = N
            /\ \A g \in 1..Len(r) : r[g][2] \in CategorySet
            /\ \A g \in 1..Len(r) :
                   (NoRuleFires(jreq.texts[g]) /\ ~PropagationApplies(g)) => r[g][2] = "HEV"

C13_Witness ==
    /\ ClassifyAnswered
    /\ job.meta.totalPages = 3
    /\ jreq.texts[1] = Text({"ORDEN MEDICA"}, 0, 0)
    /\ jreq.texts[2] = Text({}, 0, 0)
    /\ jreq.texts[3] = BlankText
    /\ jreq.resp.classifications =
           <<<<PageKey(0), "OPF">>, <<PageKey(1), "HEV">>, <<PageKey(2), "HEV">>>>

\* The source PDFs of the job of the completed auto-classify
PdfIdxs == {jreq.page_map[g][1] : g \in 1..Len(jreq.page_map)}

\* Every page of PDF pdf_idx without a strong category has category c in the result
NonStrongPagesAre(pdf_idx, c) ==
    \A g \in PerPdf(jreq.page_map, pdf_idx) :
        jreq.strong[g] = NoCategory => jreq.resp.classifications[g][2] = c

\* C14 as stated: whenever the strong categories of a PDF's pages include
\* exactly one of FEV, CRC, PDE (other strong categories may be there too),
\* every page of the PDF without a strong category has that category.
C14_PropagationAmongOthers ==
    ClassifyAnswered =>
        \A pdf_idx \in PdfIdxs :
            LET hits == StrongHits(jreq.strong, PerPdf(jreq.page_map, pdf_idx))
            IN  \A c \in {"FEV", "CRC", "PDE"} :
                    hits \cap {"FEV", "CRC", "PDE"} = {c} => NonStrongPagesAre(pdf_idx, c)

\* C14 amended: whenever the strong categories of a PDF's pages are one
\* single category and it is FEV, CRC or PDE, every page of the PDF without a
\* strong category has that category.
C14_PropagationSingleHit ==
    ClassifyAnswered =>
        \A pdf_idx \in PdfIdxs :
            LET hits == StrongHits(jreq.strong, PerPdf(jreq.page_map, pdf_idx))
            IN  \A c \in {"FEV", "CRC", "PDE"} :
                    hits = {c} => NonStrongPagesAre(pdf_idx, c)

C14_Witness ==
    /\ ClassifyAnswered
    /\ jreq.page_map = <<<<0, 0>>, <<0, 1>>, <<1, 0>>>>
    /\ jreq.strong = <<NoCategory, "PDE", NoCategory>>
    /\ jreq.resp.classifications =
           <<<<PageKey(0), "PDE">>, <<PageKey(1), "PDE">>, <<PageKey(2), "HEV">>>>

\* The first pass of an auto-classify has run
FirstPassDone ==
    /\ jreq # None /\ jreq.op = "classify"
    /\ jreq.pc \in {"second", "propagate", "done"}
    /\ "strong" \in DOMAIN jreq

CrcPhrase == "REGISTRO DE ATENCION DOMICILIARIA"

\* C15: the classifier called with allowCrcTable = false answers CRC only on a
\* text that holds REGISTRO DE ATENCION DOMICILIARIA, so no first-pass strong
\* category is CRC without the phrase; and a page without the phrase ends
\* CRC only when its PDF has a page with the phrase.
C15_CrcTableOnlyWhenAllowed ==
    /\ FirstPassDone =>
           \A g \in 1..Len(jreq.strong) :
               jreq.strong[g] = "CRC" => In(CrcPhrase, jreq.texts[g])
    /\ ClassifyAnswered =>
           \A g \in 1..Len(jreq.resp.classifications) :
               (jreq.resp.classifications[g][2] = "CRC" /\ ~In(CrcPhrase, jreq.texts[g]))
                   => \E h \in PerPdf(jreq.page_map, jreq.page_map[g][1]) :
                          In(CrcPhrase, jreq.texts[h])

\* The code trimmed, with upper-case letters and without spaces
Squeezed(code) == Without(Upper(Strip(code)), " ")

\* The stated rule: all digits gives OCFE and the digits; otherwise 3 to 6
\* leading letters immediately followed by at least 3 digits give the letters
\* and the digits, unless the letters are NIT, CUFE or CUDE; otherwise null.
StatedInvoiceCode(code) ==
    LET s == Squeezed(code)
        k == RunLetters(s, 1)
        d == RunDigits(s, k + 1)
        prefix == SubSeq(s, 1, k)
    IN  IF IsDigit(s) THEN <<"O", "C", "F", "E">> \o s
        ELSE IF k >= 3 /\ k <= 6 /\ d >= 3
                /\ prefix \notin {<<"N", "I", "T">>, <<"C", "U", "F", "E">>,
                                  <<"C", "U", "D", "E">>}
        THEN prefix \o SubSeq(s, k + 1, k + d)
        ELSE None

\* C16: the normalised invoice code is OCFE and the digits for an all-digit
\* input, the letters and the digits for an input that begins with 3 to 6
\* letters immediately followed by at least 3 digits, and null otherwise; it
\* is null whenever the letters are NIT, CUFE or CUDE.
C16_InvoiceCode ==
    normCall # None => normCall.result = StatedInvoiceCode(normCall.arg)

\* Entry e of a classification map assigns a page of a job of `total` pages:
\* its key is an integer within range and its value is not null
Assigns(e, total) ==
    /\ ~ParseInt(e[1]).ValueError
    /\ ParseInt(e[1]).idx >= 0 /\ ParseInt(e[1]).idx < total
    /\ e[2] # NoCategory

HasFevEntry(classifications, total) ==
    \E i \in 1..Len(classifications) :
        Assigns(classifications[i], total) /\ classifications[i][2] = "FEV"

\* C17: a process request on a job whose classification map has no in-range,
\* non-null FEV entry answers FevRequired (400), whatever overrides it
\* carries, and leaves the job as it was.
C17_FevRequired ==
    [][(/\ job # None
        /\ jreq'.op = "process"
        /\ ~HasFevEntry(jreq'.classifications, job.meta.totalPages))
       => (/\ jreq'.resp.kind = "FevRequired"
           /\ jreq'.resp.status = 400
           /\ job' = job)]_vars

C17_Witness ==
    /\ job # None
    /\ jreq.op = "process"
    /\ jreq.classifications =
           <<<<<<"0">>, "HEV">>, <<<<"3">>, "FEV">>, <<<<"-", "1">>, "FEV">>>>
    /\ jreq.args.nitOverride # None /\ jreq.args.ocfeOverride # None
    /\ NormalizeNit(jreq.args.nitOverride) # None
    /\ NormalizeInvoiceCode(jreq.args.ocfeOverride) # None
    /\ jreq.resp = JobError(400, "FevRequired")
    /\ job.cache = {}

\* The NIT and the invoice code a process request with these overrides must
\* end with on job j: the override where it normalises, by the stated rules,
\* to a non-empty value, else what extraction finds on the FEV pages
ResolvedNit(j, classifications, nitOverride) ==
    IF NormalizeNit(nitOverride) # None THEN NormalizeNit(nitOverride)
    ELSE FirstFound(j.content, PagesByCat(classifications, j.meta.totalPages, "FEV"), "nit")

ResolvedOcfe(j, classifications, ocfeOverride) ==
    IF StatedInvoiceCode(ocfeOverride) # None THEN StatedInvoiceCode(ocfeOverride)
    ELSE FirstFound(j.content, PagesByCat(classifications, j.meta.totalPages, "FEV"), "ocfe")

\* C18: a process request with a FEV page answers Unresolved (422), with
\* nitDetected and ocfeDetected, and leaves the job as it was when the NIT or
\* the invoice code is missing after overrides and extraction; otherwise, and
\* so whenever both overrides normalise to non-empty values, it succeeds with
\* an archive named <invoice>.zip, the override being the value used.
C18_UnresolvedThenOverrides ==
    [][(/\ job # None
        /\ jreq'.op = "process"
        /\ HasFevEntry(jreq'.classifications, job.meta.totalPages))
       => LET nit == ResolvedNit(job, jreq'.classifications, jreq'.args.nitOverride)
              ocfe == ResolvedOcfe(job, jreq'.classifications, jreq'.args.ocfeOverride)
          IN  IF nit = None \/ ocfe = None
              THEN /\ jreq'.resp = [kind |-> "Unresolved", status |-> 422,
                                    nitDetected |-> nit, ocfeDetected |-> ocfe]
                   /\ job' = job
              ELSE /\ jreq'.resp.kind = "ok"
                   /\ jreq'.resp.filename = ocfe \o <<".zip">>
                   /\ \A f \in 1..Len(jreq'.resp.files) :
                          \E cat \in CategorySet :
                              jreq'.resp.files[f].filename =
                                  <<cat, "_">> \o nit \o <<"_">> \o ocfe \o <<".pdf">>]_vars

\* C19: a process request that succeeds without keepJob leaves no job
\* directory, and from then on every request on the job (thumb, view, ocr,
\* auto-classify, process) answers NotFound; one that succeeds with keepJob
\* leaves meta, page index and source PDFs as they were, and the same request
\* on the job it leaves has the same answer.
C19_KeepJob ==
    [][/\ (jreq'.op = "process" /\ jreq'.resp.kind = "ok")
          => IF jreq'.args.keepJob
             THEN /\ job' # None
                  /\ job'.meta = job.meta
                  /\ job'.pdfs = job.pdfs /\ job'.content = job.content
                  /\ ProcessJobBytes(job', jreq'.classifications, jreq'.args.nitOverride,
                                     jreq'.args.ocfeOverride, TRUE).resp = jreq'.resp
             ELSE job' = None
       /\ job = None => (job' = None /\ jreq'.resp = JobError(404, "NotFound"))]_vars

C19_Witness ==
    /\ job = None
    /\ jreq.op = "classify" /\ jreq.args.keepJob
    /\ jreq.resp = JobError(404, "NotFound")

\* The stated order of the categories
StatedOrder == <<"CRC", "FEV", "HEV", "OPF", "PDE">>

OrderOf(cat) == CHOOSE c \in 1..Len(StatedOrder) : StatedOrder[c] = cat

\* The entries of the map that assign a page to category cat, in map order
AssignedTo(classifications, total, cat) ==
    SelectSeq(classifications, LAMBDA e : Assigns(e, total) /\ e[2] = cat)

\* C20: a successful process emits one PDF for each category with an
\* assigned page and none for the others, in the order CRC, FEV, HEV, OPF,
\* PDE, each named <CAT>_<nit>_<invoice>.pdf; but for HEV, the PDF of a
\* category holds the pages assigned to it in the iteration order of the map.
C20_AssemblyOutput ==
    (job # None /\ jreq.op = "process" /\ jreq.resp.kind = "ok") =>
        LET files == jreq.resp.files
            total == job.meta.totalPages
            catOf(f) == files[f].filename[1]
            invoice == SubSeq(jreq.resp.filename, 1, Len(jreq.resp.filename) - 1)
            nit == IF NitFromOverride(jreq.args.nitOverride) # None
                   THEN NitFromOverride(jreq.args.nitOverride)
                   ELSE FirstFound(job.content,
                                   PagesByCat(jreq.classifications, total, "FEV"), "nit")
        IN  /\ {catOf(f) : f \in 1..Len(files)} =
                   {cat \in CategorySet : AssignedTo(jreq.classifications, total, cat) # <<>>}
            /\ \A f, h \in 1..Len(files) : f < h => OrderOf(catOf(f)) < OrderOf(catOf(h))
            /\ \A f \in 1..Len(files) :
                   /\ files[f].filename =
                          <<catOf(f), "_">> \o nit \o <<"_">> \o invoice \o <<".pdf">>
                   /\ catOf(f) # "HEV" =>
                          LET entries == AssignedTo(jreq.classifications, total, catOf(f))
                          IN  files[f].pages =
                                  [i \in 1..Len(entries) |->
                                      job.meta.page_map[ParseInt(entries[i][1]).idx + 1]]

C20_Witness ==
    /\ job # None /\ jreq.op = "process" /\ jreq.resp.kind = "ok"
    /\ job.meta.page_map = <<<<0, 0>>, <<1, 0>>, <<1, 1>>>>
    /\ jreq.classifications = <<<<<<"2">>, "FEV">>, <<<<"0">>, "PDE">>, <<<<"1">>, "FEV">>>>
    /\ Len(jreq.resp.files) = 2
    /\ jreq.resp.files[1].pages = <<<<1, 1>>, <<1, 0>>>>
    /\ jreq.resp.files[1].filename[1] = "FEV"
    /\ jreq.resp.files[2].pages = <<<<0, 0>>>>
    /\ jreq.resp.files[2].filename[1] = "PDE"

\* The global page index of a source page of the job
GlobalIndexOf(pair) == CHOOSE g \in 0..(Len(job.meta.page_map) - 1) : job.meta.page_map[g + 1] = pair

FechaOf(pair) == job.content[GlobalIndexOf(pair) + 1].fecha

\* C21: in the HEV PDF the pages with a creation date come first, by
\* ascending date, and the pages without one follow in the order in which the
\* classification map assigns them.
C21_HevOrdering ==
    (job # None /\ jreq.op = "process" /\ jreq.resp.kind = "ok") =>
        \A f \in 1..Len(jreq.resp.files) :
            jreq.resp.files[f].filename[1] = "HEV" =>
                LET out == jreq.resp.files[f].pages
                    entries == AssignedTo(jreq.classifications, job.meta.totalPages, "HEV")
                    assigned == [i \in 1..Len(entries) |->
                                    job.meta.page_map[ParseInt(entries[i][1]).idx + 1]]
                IN  /\ \A i, k \in 1..Len(out) :
                           (i < k /\ FechaOf(out[k]) # NoFecha)
                               => (FechaOf(out[i]) # NoFecha /\ FechaOf(out[i]) <= FechaOf(out[k]))
                    /\ SelectSeq(out, LAMBDA pg : FechaOf(pg) = NoFecha)
                           = SelectSeq(assigned, LAMBDA pg : FechaOf(pg) = NoFecha)

\* C22: once Cancelled has been raised inside a package of a worker run, the
\* run starts no later package (none set to processing, no job created, no
\* result written): the loop is left, and the run ends with no package
\* pending or processing.
C22_CancelledLeavesLoop ==
    [][\A w \in Tids :
          (workers[w].cancelled /\ Running(w))
              => /\ workers'[w].pc \notin {"start", "classify"}
                 /\ workers'[w].pc = "finished"
                        => \A j \in DOMAIN workers'[w].meta.packages :
                               workers'[w].meta.packages[j].status
                                   \notin {"pending", "processing"}]_vars

\* C23: the batch status a worker run that was not cancelled stores when it
\* ends is partial with packages in error and packages done, error with
\* packages in error and none done, done with none in error and some done.
C23_FinalStatus ==
    [][\A w \in Tids :
          (workers[w].pc = "final" /\ workers'[w].pc = "finished" /\ ~workers[w].cancelled)
              => LET done_count == CountStatus(meta'.packages, {"done"})
                     error_count == CountStatus(meta'.packages, {"error"})
                 IN  /\ (error_count > 0 /\ done_count > 0) => meta'.status = "partial"
                     /\ (error_count > 0 /\ done_count = 0) => meta'.status = "error"
                     /\ (error_count = 0 /\ done_count > 0) => meta'.status = "done"]_vars

\* The stated derivation of the batch status from package statuses
StatedAggregate(statuses, stored) ==
    LET has(S) == \E j \in DOMAIN statuses : statuses[j] \in S
    IN  IF has({"pending", "processing"}) THEN "processing"
        ELSE IF has({"error"}) /\ has({"done"}) THEN "partial"
        ELSE IF has({"error"}) THEN "error"
        ELSE IF has({"done"}) THEN "done"
        ELSE stored

\* Request k scans the results directory in this step
GetScans(k) == reqs[k].op = "get" /\ reqs[k].pc = "loaded" /\ reqs'[k].pc # "loaded"

\* What the read of request k reports, once the scan is done
ReportedView(k) ==
    IF reqs'[k].pc = "scanned" THEN BatchView(reqs'[k].snap) ELSE reqs'[k].resp

\* The scan of request k finds a package newly done or all.zip newly there
FoundNew(k) ==
    \/ \E j \in results : reqs[k].snap.packages[j].status # "done"
    \/ allZipFile # None /\ ~reqs[k].snap.allZip

\* C24 as stated: every read reports each package whose result file exists
\* as done and a batch status equal to the aggregate over the reconciled
\* package statuses, whether or not reconciliation changed anything.
C24_ReadAlwaysAggregates ==
    [][\A k \in Rids :
          GetScans(k) =>
              /\ \A j \in results : ReportedView(k)[2][j] = "done"
              /\ ReportedView(k)[1] =
                     StatedAggregate(ReportedView(k)[2], reqs[k].snap.status)]_vars

\* C24 amended: every read reports each package whose result file exists as
\* done; the batch status it reports is the aggregate over the reconciled
\* package statuses when the scan found a package newly done or all.zip
\* newly there, and the stored status otherwise; what was scanned is what is
\* answered.
C24_ReadReconciles ==
    [][\A k \in Rids :
          /\ GetScans(k) =>
                 /\ \A j \in results : ReportedView(k)[2][j] = "done"
                 /\ ReportedView(k)[1] =
                        IF FoundNew(k)
                        THEN StatedAggregate(ReportedView(k)[2], reqs[k].snap.status)
                        ELSE reqs[k].snap.status
          /\ (reqs[k].op = "get" /\ reqs[k].pc = "scanned" /\ reqs'[k].pc = "done")
                 => reqs'[k].resp = BatchView(reqs[k].snap)]_vars

C24_Witness ==
    \E k \in Rids : \E j \in results :
        /\ reqs[k].op = "get" /\ reqs[k].pc = "scanned"
        /\ meta.packages[j].status = "processing"
        /\ reqs[k].snap.packages[j].status = "done"
        /\ \E i \in DOMAIN meta.packages : reqs[k].snap.packages[i].status = "error"
        /\ reqs[k].snap.status = "partial"

\* C25: a read writes the batch meta only after a scan that found a package
\* newly done or all.zip newly there; a scan that finds nothing new answers
\* at once and leaves the stored meta as it is.
C25_ReadWritesOnlyWhenChanged ==
    [][\A k \in Rids :
          (reqs[k].op = "get" /\ reqs'[k] # reqs[k]) =>
              /\ GetScans(k) => /\ meta' = meta
                                /\ reqs'[k].pc = IF FoundNew(k) THEN "scanned" ELSE "done"
              /\ meta' # meta => reqs[k].pc = "scanned"]_vars

C25_Witness ==
    \E k \in Rids :
        /\ reqs[k].op = "get" /\ reqs[k].pc = "done"
        /\ results # {} /\ allZipFile # None /\ meta.allZip
        /\ \A j \in results : meta.packages[j].status = "done"
        /\ reqs[k].resp = BatchView(meta)

\* C26: at every instant, a crash included, meta.json holds one complete
\* record.
C26_MetaAlwaysComplete == Complete(MetaContent)

\* C27: every load of meta.json returns one complete record, and no save
\* fails because of another thread's save.
C27_ConsistentSnapshots ==
    /\ \A l \in Lids : /\ loaders[l].pc = "done" => Complete(loaders[l].got)
                       /\ loaders[l].pc # "503"
    /\ \A w \in Sids : savers[w].pc # "failed"

\* The category of the first rule, in the stated order, that matches t
StatedRule(t) ==
    LET certificacion == {"CERTIFICACION PRESTACION DE SERVICIOS",
                          "CERTIFICACION PRESTACION DE SERVICIOS POR CONCEPTO",
                          "CERTIFICACION DETALLE DE CARGOS"}
        fev == {"FACTURA ELECTRONICA DE VENTA", "NOTA DE CREDITO ELECTRONICA",
                "DETALLE DE CARGOS", "FACTURA OCFE"}
        hev == {"REGISTRO DE ACTIVIDADES DE CUIDADO", "HISTORIA CLINICA", "TRABAJO SOCIAL"}
    IN  IF In("ORDEN MEDICA", t) /\ In("DECISION", t) THEN "OPF"
        ELSE IF \E ph \in hev : In(ph, t) THEN "HEV"
        ELSE IF In("ORDEN MEDICA", t) THEN "OPF"
        ELSE IF HasOpfTableHint(t) THEN "OPF"
        ELSE IF In("AUTORIZACION SERVICIOS", t) THEN "PDE"
        ELSE IF In("REGISTRO DE ATENCION DOMICILIARIA", t) THEN "CRC"
        ELSE IF \E ph \in certificacion : In(ph, t) THEN "HEV"
        ELSE IF \E ph \in fev : In(ph, t) THEN "FEV"
        ELSE NoCategory

\* C28: the classifier returns the category of the first rule, in the stated
\* order, that matches the text, and null for the empty text.
C28_FirstRuleInOrder ==
    classifyCall.state = "returned" =>
        /\ classifyCall.text.blank => classifyCall.result = NoCategory
        /\ (~classifyCall.text.blank /\ StatedRule(classifyCall.text) # NoCategory)
               => classifyCall.result = StatedRule(classifyCall.text)

C28_Witness ==
    /\ classifyCall.state = "returned"
    /\ classifyCall.text.phrases = {"CERTIFICACION DETALLE DE CARGOS", "DETALLE DE CARGOS"}
    /\ classifyCall.result = "HEV"

\* A strong rule matches t: the classifier without the CRC table heuristic
StrongMatch(t) == ~t.blank /\ StatedRule(t) # NoCategory

\* The OCR runs made for page g (counted from 1)
OcrOf(g) == {kind \in {"head", "full"} : <<g - 1, kind>> \in extraction.ocr}

\* C29: for every page whose text has been returned: a useful embedded text
\* that a strong rule matches is returned with no OCR; a useful one that no
\* strong rule matches gets header OCR only, and the header text is returned
\* if a strong rule matches it, else the embedded text; a page whose embedded
\* text is not useful gets the header text if a strong rule matches it, else
\* the full-page OCR text, and full-page OCR runs in that last case only.
C29_TieredExtraction ==
    \A g \in 1..Len(extraction.texts) :
        LET page == extraction.pages[g]
            text == extraction.texts[g]
        IN  IF TextIsUseful(page) /\ StrongMatch(page.embedded)
            THEN text = page.embedded /\ OcrOf(g) = {}
            ELSE IF TextIsUseful(page)
            THEN /\ OcrOf(g) = {"head"}
                 /\ text = IF StrongMatch(page.header) THEN page.header ELSE page.embedded
            ELSE IF StrongMatch(page.header)
            THEN text = page.header /\ OcrOf(g) = {"head"}
            ELSE text = page.full /\ OcrOf(g) = {"head", "full"}

\* C30: a tier begun once the batch is cancelled raises the cancellation:
\* no OCR run is added, no page text, no later page, no map; and a
\* cancelled run stays without a map.
C30_CooperativeCancel ==
    [][/\ (extraction.cancelRequested
             /\ extraction.pc \in {"embedded", "header_useful", "header", "full"}
             /\ extraction' # extraction)
          => /\ extraction'.pc = "cancelled"
             /\ extraction'.ocr = extraction.ocr
             /\ extraction'.texts = extraction.texts
             /\ extraction'.i = extraction.i
             /\ extraction'.classifications = <<>>
       /\ extraction.pc = "cancelled" => extraction' = extraction]_vars

C30_Witness ==
    /\ extraction.pc = "cancelled"
    /\ extraction.i = 0 /\ Len(extraction.pages) = ExtractPages
    /\ extraction.ocr = {<<0, "head">>}
    /\ extraction.classifications = <<>>

\* A key that is a number: digits, with a sign before them or none
NumericKey(k) ==
    \/ IsDigit(k)
    \/ Len(k) > 1 /\ k[1] \in {"+", "-"} /\ IsDigit(Tail(k))

\* The number a numeric key without a minus sign stands for
KeyIndex(k) == DigitsValue(IF k[1] = "+" THEN Tail(k) ELSE k)

\* An entry of the map that is valid for a job of `total` pages
ValidEntry(e, total) ==
    /\ NumericKey(e[1]) /\ e[1][1] # "-"
    /\ KeyIndex(e[1]) < total
    /\ e[2] # NoCategory

\* How many times page p comes in the sequence pages
Times(pages, p) == Cardinality({i \in 1..Len(pages) : pages[i] = p})

\* C31: a process request on a job answers 400 only when no valid entry is
\* FEV; when it succeeds, the PDF of each category holds the page of every
\* valid entry of that category and nothing else, so that an entry with a
\* key that is no number, an index out of range or a null value adds no page.
C31_OnlyValidEntries ==
    [][(job # None /\ jreq'.op = "process" /\ jreq' # jreq) =>
          LET total == job.meta.totalPages
              valid(cat) == SelectSeq(jreq'.classifications,
                                      LAMBDA e : ValidEntry(e, total) /\ e[2] = cat)
              pagesOf(cat) == [i \in 1..Len(valid(cat)) |->
                                   job.meta.page_map[KeyIndex(valid(cat)[i][1]) + 1]]
              files == jreq'.resp.files
              fileOf(cat) == {f \in 1..Len(files) : files[f].filename[1] = cat}
          IN  /\ jreq'.resp.kind \in {"ok", "Unresolved"} <=> valid("FEV") # <<>>
              /\ jreq'.resp.kind = "ok" =>
                     \A cat \in CategorySet :
                         IF valid(cat) = <<>> THEN fileOf(cat) = {}
                         ELSE /\ Cardinality(fileOf(cat)) = 1
                              /\ \A f \in fileOf(cat) : \A p \in 1..Len(job.meta.page_map) :
                                     Times(files[f].pages, job.meta.page_map[p])
                                         = Times(pagesOf(cat), job.meta.page_map[p])]_vars

C31_Witness ==
    /\ jreq.op = "process" /\ jreq.resp.kind = "ok"
    /\ Len(jreq.resp.files) = 1
    /\ jreq.classifications = <<<<<<"0">>, "FEV">>, <<<<"3">>, "HEV">>, <<<<"-", "1">>, "HEV">>>>

\* C40: in the output of a successful process no source page comes twice,
\* in one category PDF or in two.
C40_PageAtMostOnce ==
    (job # None /\ jreq.op = "process" /\ jreq.resp.kind = "ok") =>
        LET files == jreq.resp.files
        IN  /\ \A f \in 1..Len(files) : \A p \in 1..Len(job.meta.page_map) :
                   Times(files[f].pages, job.meta.page_map[p]) <= 1
            /\ \A f, h \in 1..Len(files) :
                   f # h => \A i \in 1..Len(files[f].pages) :
                                Times(files[h].pages, files[f].pages[i]) = 0

\* The name is a 32-hex identifier
IsIdentifier(name) ==
    /\ Len(name) = 32
    /\ \A i \in 1..Len(name) :
           name[i] \in {"0", "1", "2", "3", "4", "5", "6", "7", "8", "9", "a", "b", "c", "d",
                        "e", "f", "A", "B", "C", "D", "E", "F"}

\* The directory is a job whose meta records a creation time older than the TTL
Expired(name) ==
    /\ jobRoot.dirs[name].exists /\ IsIdentifier(name)
    /\ jobRoot.dirs[name].hasMeta
    /\ jobRoot.now - jobRoot.dirs[name].createdAt > JOB_TTL_SECONDS

\* C32: the sweep made when a job is created removes every expired job and
\* leaves every other directory as it was.
C32_SweepExactlyExpired ==
    [][\A created \in DirNames :
          (~jobRoot.dirs[created].exists /\ jobRoot'.dirs[created].exists) =>
              \A name \in DirNames \ {created} :
                  IF Expired(name) THEN ~jobRoot'.dirs[name].exists
                  ELSE jobRoot'.dirs[name] = jobRoot.dirs[name]]_vars

C32_Witness ==
    /\ jobRoot.now = MaxTime
    /\ ~jobRoot.dirs[Repeated("F", JobIdLen)].exists
    /\ jobRoot.dirs[Repeated("g", JobIdLen)].exists
    /\ jobRoot.dirs[Repeated("a", JobIdLen)].exists
    /\ ~jobRoot.dirs[Repeated("a", JobIdLen)].hasMeta
    /\ jobRoot.dirs[Repeated("0", JobIdLen)].hasMeta
    /\ jobRoot.dirs[Repeated("0", JobIdLen)].createdAt = MaxTime - JOB_TTL_SECONDS

\* C33: while a cancel request is stored (cancelRequested true, status
\* cancelling), no step of a running worker that has not yet marked its run
\* cancelled resets the stored flag or the stored status.
C33_WorkerKeepsCancelRequest ==
    [][\A w \in Tids :
          (/\ meta.cancelRequested /\ meta.status = "cancelling"
           /\ Running(w) /\ ~workers[w].cancelled
           /\ workers'[w] # workers[w])
              => meta'.cancelRequested /\ meta'.status = "cancelling"]_vars

\* C34: cancelling is not a status the batch is left in: once every worker
\* and every request has ended, the stored status is not cancelling.
C34_CancellingDrains == Quiescent => meta.status # "cancelling"

\* C35: the last meta write of a worker run stores a status among done,
\* partial, error and cancelled, and no package pending or processing.
C35_RunEndsTerminal ==
    [][\A w \in Tids :
          (workers[w].pc = "final" /\ workers'[w].pc = "finished")
              => /\ meta'.status \in {"done", "partial", "error", "cancelled"}
                 /\ \A j \in DOMAIN meta'.packages :
                        meta'.packages[j].status \notin {"pending", "processing"}]_vars

\* C36: no step of a request handler replaces a stored package status done,
\* error or cancelled by pending or processing.
C36_HandlersKeepProgress ==
    [][\A k \in Rids :
          reqs'[k] # reqs[k] =>
              \A j \in DOMAIN meta.packages :
                  meta.packages[j].status \in {"done", "error", "cancelled"}
                      => meta'.packages[j].status \notin {"pending", "processing"}]_vars

\* C37: a package stored as done stays done, whatever step comes next.
C37_DoneIsStable ==
    [][\A j \in DOMAIN meta.packages :
          meta.packages[j].status = "done" => meta'.packages[j].status = "done"]_vars

\* C38: in the stored meta and in every worker's copy of it, a package with
\* status done has its result file recorded, and that file is in the results
\* directory.
C38_DoneHasResultFile ==
    /\ \A j \in DOMAIN meta.packages :
           meta.packages[j].status = "done"
               => /\ meta.packages[j].resultFile = ResultFileName(j)
                  /\ j \in results
    /\ \A w \in Tids :
           workers[w].meta # None =>
               \A j \in DOMAIN workers[w].meta.packages :
                   workers[w].meta.packages[j].status = "done"
                       => /\ workers[w].meta.packages[j].resultFile = ResultFileName(j)
                          /\ j \in results

C38_Witness ==
    /\ Quiescent
    /\ meta.status = "partial"
    /\ \E j \in DOMAIN meta.packages : meta.packages[j].status = "done" /\ j \in results
    /\ \E k \in Rids : reqs[k].op = "get" /\ reqs[k].pc = "done"

\* The text of a page as the tiers give it when nothing else runs
TextOfPage(page) ==
    IF ~page.embedded.blank /\ page.long
    THEN IF ClassifyText(page.embedded, TRUE) # NoCategory THEN page.embedded
         ELSE IF ClassifyText(page.header, FALSE) # NoCategory THEN page.header
         ELSE page.embedded
    ELSE IF ClassifyText(page.header, FALSE) # NoCategory THEN page.header
    ELSE page.full

\* The map of the job: a function of its pages alone
MapOfJob ==
    AutoClassifyInternal([g \in DOMAIN pool.pages |-> TextOfPage(pool.pages[g])],
                         pool.page_map)

\* C39: whatever the pool size and the interleaving of the page tasks, the
\* map auto-classify returns is the map of the job, and the variant with a
\* cancel predicate that never fires returns that same map.
C39_SchedulingIndependent ==
    /\ pool.pc = "returned" => pool.classifications = MapOfJob
    /\ pool.run.pc = "returned" => pool.run.classifications = MapOfJob

C39_Witness ==
    /\ pool.pc = "returned" /\ pool.run.pc = "returned"
    /\ pool.size = MaxPool /\ Len(pool.pages) = PoolPages
    /\ pool.classifications = pool.run.classifications
    /\ pool.classifications[1][2] = "FEV" /\ pool.classifications[2][2] = "CRC"
====
